---- MODULE Spec2Model ----
(***************************************************************************)
(* HeatSight backend: the periodic task scheduler with its per-run store   *)
(* session (app/core/scheduler.py, app/crud/news_heat_score.py), the heat  *)
(* update pipeline (app/services/news_heat_score_service.py) and the       *)
(* cached, retrying upstream client (app/services/heatlink_client.py,      *)
(* app/db/redis.py), the cache layer on its two backends, the score        *)
(* calculator with the source-weight learner, the queries of the           *)
(* HeatScore store, the category backfill (app/api/v1/heat_score.py), the  *)
(* keyword extractor with the trending aggregator, and the cache key of    *)
(* the upstream client.                                                    *)
(***************************************************************************)
EXTENDS Integers, Sequences, FiniteSets, TLC

(***************************************************************************)
(* Bounds of the scheduler model.                                          *)
(***************************************************************************)
MaxLoops == 3   \* asyncio tasks ever created by _start_task
MaxRows == 1    \* rows one heat-update run writes at most

TaskIds == {"update_heat_scores", "update_keyword_heat"}

\* register_tasks: the function each task id is registered with
RegisteredFunc(tid) ==
    IF tid = "update_heat_scores" THEN "update_all_heat_scores" ELSE "update_keyword_heat"

VARIABLES
    is_running,   \* TaskScheduler.is_running
    tasks,        \* TaskScheduler.tasks: task id -> registration
    loops         \* the asyncio tasks created for task_wrapper, in creation order

schedVars == <<is_running, tasks, loops>>

VARIABLES
    upd_pc,          \* get_sources | fanout | scoring | done | raised
    src_outcome,     \* how get_sources ended: none | ok | fail | timeout
    sources,         \* the descriptors get_sources returned
    chunk_i,         \* fetch_all_news_from_sources: i of the chunk loop
    chunk_tasks,     \* the (source_id, task) pairs of the current chunk
    awaited,         \* how many of them the await loop has consumed
    outcomes,        \* per position of sources: the outcome of its fetch
    all_news_items,  \* the flat list under construction, then the batch
    score_k,         \* calculate_batch_heat_scores: items consumed so far
    results,         \* calculate_batch_heat_scores: keys of the results map
    written,         \* positions of the batch whose HeatScore row is stored
    upd_result       \* what update_all_heat_scores returned: none | empty | map

batchVars == <<upd_pc, src_outcome, sources, chunk_i, chunk_tasks, awaited,
               outcomes, all_news_items, score_k, results, written, upd_result>>

VARIABLES
    now,      \* the clock the cache expiry is measured with
    backend,  \* RedisManager.redis_client after connect: redis | memory
    cache,    \* the cache content: key -> [present, data, exp]
    call      \* the HeatLinkAPIClient.get call in progress

clientVars == <<now, backend, cache, call>>

VARIABLES
    clock,     \* the time the two cache backends measure expiry with
    mgr,       \* per RedisManager: is_connected, using_memory_cache
    db,        \* per RedisManager: the keyspace of its redis_client
    observed   \* the last operation and what each manager returned for it

cacheVars == <<clock, mgr, db, observed>>

VARIABLES
    sc_batch,   \* all_news_items of the scoring call: title and source_id per item
    sc_in,      \* metrics, published_at and search results of the item to score
    sc_row,     \* the HeatScore row the last calculate_heat_score call stored
    sw_cache,   \* the value of heatsight:heatscore:source_weights: source -> weight
    sw_stats    \* the same record: source -> avg_engagement, update_frequency

scoreVars == <<sc_batch, sc_in, sc_row, sw_cache, sw_stats>>

VARIABLES
    st_store,   \* the news_heat_scores table: the rows in insertion order
    st_query,   \* the arguments of the query under study
    st_result   \* what the query returned, once it has run

storeVars == <<st_store, st_query, st_result>>

VARIABLES
    bf_pc,      \* run_category_update: idle | updating | done
    bf_cat,     \* source_categories, the map the run infers categories from
    bf_store,   \* the persisted source_id and meta_data of the HeatScore rows
    bf_records  \* the selected records the run has still to update

backfillVars == <<bf_pc, bf_cat, bf_store, bf_records>>

VARIABLES
    tr_now,     \* the hour of the wall clock
    tr_store,   \* the HeatScore rows the trending aggregator reads
    tr_cache,   \* the entry of the key heatsight:heatscore:keywords
    tr_run      \* the last aggregation run: the list it computed

trendVars == <<tr_now, tr_store, tr_cache, tr_run>>

VARIABLES
    ck_calls,   \* the two GETs under study: prefix and parameters as supplied
    ck_keys     \* the cache key each of them used, once it has run

keyVars == <<ck_calls, ck_keys>>

vars == <<schedVars, batchVars, clientVars, cacheVars, scoreVars, storeVars,
          backfillVars, trendVars, keyVars>>

\* what a step of one part leaves alone: the variables of the other parts
notSched == <<batchVars, clientVars, cacheVars, scoreVars, storeVars,
              backfillVars, trendVars, keyVars>>
notBatch == <<schedVars, clientVars, cacheVars, scoreVars, storeVars,
              backfillVars, trendVars, keyVars>>
notClient == <<schedVars, batchVars, cacheVars, scoreVars, storeVars,
               backfillVars, trendVars, keyVars>>
notCache == <<schedVars, batchVars, clientVars, scoreVars, storeVars,
              backfillVars, trendVars, keyVars>>
notScore == <<schedVars, batchVars, clientVars, cacheVars, storeVars,
              backfillVars, trendVars, keyVars>>
notStore == <<schedVars, batchVars, clientVars, cacheVars, scoreVars,
              backfillVars, trendVars, keyVars>>
notBackfill == <<schedVars, batchVars, clientVars, cacheVars, scoreVars, storeVars,
                 trendVars, keyVars>>
notTrend == <<schedVars, batchVars, clientVars, cacheVars, scoreVars, storeVars,
              backfillVars, keyVars>>
notKey == <<schedVars, batchVars, clientVars, cacheVars, scoreVars, storeVars,
            backfillVars, trendVars>>

(***************************************************************************)
(* TaskScheduler state                                                     *)
(***************************************************************************)
\* a task id that add_task was never called for
Unregistered ==
    [registered |-> FALSE, func |-> "update_all_heat_scores",
     with_session |-> TRUE, auto_commit |-> TRUE, task |-> 0]

\* the dictionary add_task stores; task = 0 stands for None
Registration(func, with_session, auto_commit) ==
    [registered |-> TRUE, func |-> func, with_session |-> with_session,
     auto_commit |-> auto_commit, task |-> 0]

\* the asyncio task of task_wrapper as loop.create_task leaves it: the
\* closure holds task_id and the task_info dictionary it was created for
NewLoop(tid, info) ==
    [tid |-> tid, func |-> info.func, with_session |-> info.with_session,
     auto_commit |-> info.auto_commit,
     pc |-> "created",      \* created | executing | sleeping | done
     cancel |-> FALSE,      \* Task.cancel() was called and not yet delivered
     session |-> "closed",  \* the AsyncSession of the current run
     pending |-> 0,         \* rows added to the session and not committed
     durable |-> 0,         \* rows of the current (or last) run committed to the store
     outcome |-> "none"]    \* how the last run ended: none | ok | error | timeout

SchedInit ==
    /\ is_running = FALSE
    /\ tasks = [t \in TaskIds |-> Unregistered]
    /\ loops = <<>>

LoopIds == 1..Len(loops)

\* Task.cancel(): a finished task ignores it
CancelLoop(ls, i) ==
    IF i \in 1..Len(ls) /\ ls[i].pc # "done"
    THEN [ls EXCEPT ![i].cancel = TRUE]
    ELSE ls

\* a stop() that requests no cancellation
CancelAll_None(ls, regs, ids) == ls

RECURSIVE CancelAll(_, _, _)
\* the loop of stop(): cancel the task of every registration that has one
CancelAll(ls, regs, ids) ==
    IF ids = {} THEN ls
    ELSE LET t == CHOOSE x \in ids : TRUE
         IN  CancelAll(IF regs[t].registered /\ regs[t].task # 0
                       THEN CancelLoop(ls, regs[t].task) ELSE ls,
                       regs, ids \ {t})

RECURSIVE StartAll(_, _, _)
\* the loop of start(): _start_task for every registration; the result is
\* the pair <<loops, tasks>>
StartAll(ls, regs, ids) ==
    IF ids = {} THEN <<ls, regs>>
    ELSE LET t == CHOOSE x \in ids : TRUE
         IN  IF regs[t].registered
             THEN StartAll(Append(ls, NewLoop(t, regs[t])),
                           [regs EXCEPT ![t].task = Len(ls) + 1], ids \ {t})
             ELSE StartAll(ls, regs, ids \ {t})

RegisteredIds == {t \in TaskIds : tasks[t].registered}

\* TaskScheduler.start
Start ==
    IF is_running
    THEN UNCHANGED vars
    ELSE /\ Len(loops) + Cardinality(RegisteredIds) <= MaxLoops
         /\ is_running' = TRUE
         /\ loops' = StartAll(loops, tasks, TaskIds)[1]
         /\ tasks' = StartAll(loops, tasks, TaskIds)[2]
         /\ UNCHANGED notSched

\* TaskScheduler.stop: it has no suspension point, the cancellations are
\* requested and stop returns
Stop ==
    IF ~is_running
    THEN UNCHANGED vars
    ELSE /\ is_running' = FALSE
         /\ loops' = CancelAll(loops, tasks, TaskIds)
         /\ UNCHANGED <<tasks, notSched>>

\* add_task that forgets to cancel the task it replaces
CancelReplaced_NoCancel(ls, tid) == ls

\* the cancellation add_task requests for the registration it replaces
CancelReplaced(ls, tid) ==
    IF tasks[tid].registered /\ is_running
    THEN CancelLoop(ls, tasks[tid].task)
    ELSE ls

\* TaskScheduler.add_task
AddTask(tid, func, with_session, auto_commit) ==
    LET cancelled == CancelReplaced(loops, tid)
        info == Registration(func, with_session, auto_commit)
    IN  \* a registration without a task cannot be cancelled while running
        /\ (tasks[tid].registered /\ is_running) => tasks[tid].task # 0
        /\ IF is_running
           THEN /\ Len(loops) < MaxLoops
                /\ loops' = Append(cancelled, NewLoop(tid, info))
                /\ tasks' = [tasks EXCEPT ![tid] = [info EXCEPT !.task = Len(loops) + 1]]
           ELSE /\ loops' = cancelled
                /\ tasks' = [tasks EXCEPT ![tid] = info]
        /\ UNCHANGED <<is_running, notSched>>

(***************************************************************************)
(* task_wrapper: one asyncio task per started registration                 *)
(***************************************************************************)
\* the head of `while self.is_running`: a new run opens a session and calls
\* the function under wait_for, otherwise the wrapper returns
LoopHead(l) ==
    IF is_running
    THEN [l EXCEPT !.pc = "executing", !.session = "open", !.pending = 0,
                   !.durable = 0, !.outcome = "none"]
    ELSE [l EXCEPT !.pc = "done", !.durable = 0, !.outcome = "none"]

\* the first step of a created task
LoopBegin(i) ==
    /\ i \in LoopIds
    /\ loops[i].pc = "created"
    /\ ~loops[i].cancel
    /\ loops' = [loops EXCEPT ![i] = LoopHead(loops[i])]
    /\ UNCHANGED <<is_running, tasks, notSched>>

\* asyncio.sleep(interval) returns
Wake(i) ==
    /\ i \in LoopIds
    /\ loops[i].pc = "sleeping"
    /\ ~loops[i].cancel
    /\ loops' = [loops EXCEPT ![i] = LoopHead(loops[i])]
    /\ UNCHANGED <<is_running, tasks, notSched>>

\* the functions register_tasks registers all take the session argument
TakesSession(func) == TRUE

\* update_all_heat_scores is the function that writes HeatScore rows
WritesRows(func) == func = "update_all_heat_scores"

\* update_all_heat_scores returns [] on every exception, the other
\* functions log and re-raise
Reraises(func) == func # "update_all_heat_scores"

\* crud create, first half: db.add(db_obj), up to the await of db.commit()
CreateAdd(i) ==
    /\ i \in LoopIds
    /\ loops[i].pc = "executing"
    /\ ~loops[i].cancel
    /\ loops[i].with_session
    /\ WritesRows(loops[i].func)
    /\ loops[i].pending = 0
    /\ loops[i].durable < MaxRows
    /\ loops' = [loops EXCEPT ![i].pending = 1]
    /\ UNCHANGED <<is_running, tasks, notSched>>

\* the effect of `await db.commit()` in crud create on the run's rows
CommitRows(l) == [l EXCEPT !.durable = l.durable + l.pending, !.pending = 0]

\* crud create, second half: db.commit() succeeds
CreateCommit(i) ==
    /\ i \in LoopIds
    /\ loops[i].pc = "executing"
    /\ ~loops[i].cancel
    /\ loops[i].pending > 0
    /\ loops' = [loops EXCEPT ![i] = CommitRows(loops[i])]
    /\ UNCHANGED <<is_running, tasks, notSched>>

\* crud create, second half: db.commit() raises, create rolls back and
\* re-raises, calculate_batch_heat_scores logs and goes on
CreateCommitFail(i) ==
    /\ i \in LoopIds
    /\ loops[i].pc = "executing"
    /\ ~loops[i].cancel
    /\ loops[i].pending > 0
    /\ loops' = [loops EXCEPT ![i].pending = 0]
    /\ UNCHANGED <<is_running, tasks, notSched>>

\* protected_task_execution when the function returned: the commit of
\* auto_commit, the end of `async with`, then the log and the sleep
AfterReturn(l) ==
    [l EXCEPT !.pc = "sleeping", !.session = "closed", !.outcome = "ok",
              !.durable = IF l.auto_commit /\ l.with_session
                          THEN l.durable + l.pending ELSE l.durable,
              !.pending = 0]

\* the function returns normally
FuncReturn(i) ==
    /\ i \in LoopIds
    /\ loops[i].pc = "executing"
    /\ ~loops[i].cancel
    /\ loops[i].with_session \/ ~TakesSession(loops[i].func)
    /\ loops[i].pending = 0
    /\ loops' = [loops EXCEPT ![i] = AfterReturn(loops[i])]
    /\ UNCHANGED <<is_running, tasks, notSched>>

\* an exception that is not caught by the wrapper and ends its task
AfterRaise_EndsLoop(l) ==
    [l EXCEPT !.pc = "done", !.session = "closed", !.outcome = "error",
              !.pending = 0]

\* an exception leaves protected_task_execution: rollback, re-raise through
\* wait_for, logged by the wrapper, which goes on to the sleep
AfterRaise(l) ==
    [l EXCEPT !.pc = "sleeping", !.session = "closed", !.outcome = "error",
              !.pending = 0]

\* the function raises: it re-raises an error of its own, or it is called
\* without the session argument it requires
FuncRaise(i) ==
    /\ i \in LoopIds
    /\ loops[i].pc = "executing"
    /\ ~loops[i].cancel
    /\ \/ loops[i].with_session /\ Reraises(loops[i].func)
       \/ ~loops[i].with_session /\ TakesSession(loops[i].func)
    /\ loops' = [loops EXCEPT ![i] = AfterRaise(loops[i])]
    /\ UNCHANGED <<is_running, tasks, notSched>>

\* the function returned and the session.commit() of the wrapper raises
WrapperCommitFail(i) ==
    /\ i \in LoopIds
    /\ loops[i].pc = "executing"
    /\ ~loops[i].cancel
    /\ loops[i].with_session /\ loops[i].auto_commit
    /\ loops[i].pending = 0
    /\ loops' = [loops EXCEPT ![i] = AfterRaise(loops[i])]
    /\ UNCHANGED <<is_running, tasks, notSched>>

\* a timeout that is re-raised like any other exception and ends the task
AfterTimeout_EndsLoop(l) ==
    [l EXCEPT !.pc = "done", !.session = "closed", !.outcome = "timeout",
              !.pending = 0]

\* wait_for gives up after max_execution_time: the run is cancelled, the
\* session is closed without a commit, TimeoutError is logged
AfterTimeout(l) ==
    [l EXCEPT !.pc = "sleeping", !.session = "closed", !.outcome = "timeout",
              !.pending = 0]

Timeout(i) ==
    /\ i \in LoopIds
    /\ loops[i].pc = "executing"
    /\ ~loops[i].cancel
    /\ loops' = [loops EXCEPT ![i] = AfterTimeout(loops[i])]
    /\ UNCHANGED <<is_running, tasks, notSched>>

\* a wrapper that breaks out of its loop and leaves the session of the
\* interrupted run as it is
AfterCancel_LeavesSession(l) ==
    [l EXCEPT !.pc = "done", !.cancel = FALSE, !.outcome = "none"]

\* CancelledError reaches the wrapper: a task not yet started never runs,
\* a run or a sleep is interrupted and the wrapper breaks out of its loop
AfterCancel(l) ==
    [l EXCEPT !.pc = "done", !.cancel = FALSE, !.session = "closed",
              !.pending = 0, !.durable = 0, !.outcome = "none"]

Cancelled(i) ==
    /\ i \in LoopIds
    /\ loops[i].pc # "done"
    /\ loops[i].cancel
    /\ loops' = [loops EXCEPT ![i] = AfterCancel(loops[i])]
    /\ UNCHANGED <<is_running, tasks, notSched>>

SchedNext ==
    \/ Start
    \/ Stop
    \/ \E tid \in TaskIds : AddTask(tid, RegisteredFunc(tid), TRUE, TRUE)
    \/ \E i \in 1..MaxLoops : LoopBegin(i)
    \/ \E i \in 1..MaxLoops : Wake(i)
    \/ \E i \in 1..MaxLoops : CreateAdd(i)
    \/ \E i \in 1..MaxLoops : CreateCommit(i)
    \/ \E i \in 1..MaxLoops : CreateCommitFail(i)
    \/ \E i \in 1..MaxLoops : FuncReturn(i)
    \/ \E i \in 1..MaxLoops : FuncRaise(i)
    \/ \E i \in 1..MaxLoops : WrapperCommitFail(i)
    \/ \E i \in 1..MaxLoops : Timeout(i)
    \/ \E i \in 1..MaxLoops : Cancelled(i)

TypeOK ==
    /\ is_running \in BOOLEAN
    /\ Len(loops) <= MaxLoops
    /\ \A i \in LoopIds : loops[i].pc \in {"created", "executing", "sleeping", "done"}

(***************************************************************************)
(* The heat update: update_all_heat_scores, the fan-out fetch and the      *)
(* batch scoring (NewsHeatScoreService)                                    *)
(***************************************************************************)
MaxSources == 4     \* descriptors the upstream sources list holds at most
max_concurrent == 3 \* fetch_all_news_from_sources: sources per chunk

\* the value of a key the dictionary does not have
Absent == "<absent>"

\* the descriptors of the upstream sources list: the upstream returns n of
\* them starting at the r-th of this cycle; one of them carries none of
\* source_id, id, key, name
DescriptorAt(p, r) ==
    CASE (p + r) % 5 = 1 -> "weibo"
      [] (p + r) % 5 = 2 -> Absent
      [] (p + r) % 5 = 3 -> "zhihu"
      [] (p + r) % 5 = 4 -> "toutiao"
      [] OTHER           -> "baidu"

\* the items a source's detail response holds; upstream items may lack id,
\* title or url and carry a source_id of their own
Feed(sid) ==
    CASE sid = "weibo" ->
           <<[id |-> "w1", has_title |-> TRUE, has_url |-> TRUE, source_id |-> "sina"],
             [id |-> "w2", has_title |-> TRUE, has_url |-> FALSE, source_id |-> Absent]>>
      [] sid = "zhihu" ->
           <<[id |-> "z1", has_title |-> TRUE, has_url |-> TRUE, source_id |-> Absent]>>
      [] sid = "toutiao" ->
           <<[id |-> Absent, has_title |-> TRUE, has_url |-> TRUE, source_id |-> Absent],
             [id |-> "t1", has_title |-> TRUE, has_url |-> TRUE, source_id |-> "toutiao"]>>
      [] OTHER ->
           <<[id |-> "b1", has_title |-> TRUE, has_url |-> TRUE, source_id |-> Absent],
             [id |-> "b2", has_title |-> FALSE, has_url |-> TRUE, source_id |-> Absent]>>

\* how a per-source fetch ends: a response with items, an empty response,
\* an error of the client, or the 10 second wait_for giving up
FetchOutcomes == {"ok", "empty", "fail", "timeout"}

BatchInit ==
    /\ upd_pc = "get_sources"
    /\ src_outcome = "none"
    /\ sources = <<>>
    /\ chunk_i = 0
    /\ chunk_tasks = <<>>
    /\ awaited = 0
    /\ outcomes = <<>>
    /\ all_news_items = <<>>
    /\ score_k = 0
    /\ results = {}
    /\ written = {}
    /\ upd_result = "none"

\* the outer `except Exception` of a function that re-raises what it logged
Escape_Reraise == upd_pc' = "raised" /\ upd_result' = "none"

\* update_all_heat_scores: the outer `except Exception` logs and returns []
Escape == upd_pc' = "done" /\ upd_result' = "empty"

\* an early `return []`
ReturnEmpty == upd_pc' = "done" /\ upd_result' = "empty"

\* step 1: get_sources(force_update=True) under a 15 second wait_for; the
\* response is a list or a dictionary with the list under "sources"
GetSources(outcome, n, r) ==
    /\ upd_pc = "get_sources"
    /\ src_outcome' = outcome
    /\ IF outcome = "fail" THEN Escape /\ UNCHANGED sources
       ELSE IF outcome = "timeout" THEN ReturnEmpty /\ UNCHANGED sources
       ELSE /\ sources' = [p \in 1..n |-> DescriptorAt(p, r)]
            /\ IF n = 0 THEN ReturnEmpty
               ELSE upd_pc' = "fanout" /\ UNCHANGED upd_result
    /\ outcomes' = [p \in 1..(IF outcome = "ok" THEN n ELSE 0) |-> "none"]
    /\ UNCHANGED <<notBatch, chunk_i, chunk_tasks, awaited, all_news_items, score_k,
                   results, written>>

Min(a, b) == IF a < b THEN a ELSE b

\* a fan-out that starts the fetch of every remaining source at once
ChunkTasks_NoChunks(srcs, lo, hi) ==
    [j \in 1..(Len(srcs) - lo + 1) |->
        [pos |-> lo + j - 1, source_id |-> srcs[lo + j - 1], state |-> "inflight"]]

RECURSIVE ChunkTasks(_, _, _)
\* the tasks created for sources[lo..hi]: a descriptor without an id is
\* skipped, every other one gets wait_for(client.get(...), 10) as a task
ChunkTasks(srcs, lo, hi) ==
    IF lo > hi THEN <<>>
    ELSE IF srcs[lo] = Absent THEN ChunkTasks(srcs, lo + 1, hi)
         ELSE <<[pos |-> lo, source_id |-> srcs[lo], state |-> "inflight"]>>
              \o ChunkTasks(srcs, lo + 1, hi)

\* the head of the chunk loop: create the tasks of the next chunk, or
\* return the flat list; an empty list ends update_all_heat_scores
StartChunk ==
    /\ upd_pc = "fanout"
    /\ IF chunk_i < Len(sources)
       THEN /\ chunk_tasks' = ChunkTasks(sources, chunk_i + 1,
                                         Min(chunk_i + max_concurrent, Len(sources)))
            /\ upd_pc' = "awaiting"
            /\ UNCHANGED upd_result
       ELSE /\ UNCHANGED chunk_tasks
            /\ IF all_news_items = <<>> THEN ReturnEmpty
               ELSE upd_pc' = "scoring" /\ UNCHANGED upd_result
    /\ UNCHANGED <<notBatch, src_outcome, sources, chunk_i, awaited, outcomes,
                   all_news_items, score_k, results, written>>

\* a fetch task of the current chunk finishes
FetchDone(j, outcome) ==
    /\ upd_pc = "awaiting"
    /\ j \in 1..Len(chunk_tasks)
    /\ chunk_tasks[j].state = "inflight"
    /\ chunk_tasks' = [chunk_tasks EXCEPT ![j].state = outcome]
    /\ outcomes' = [outcomes EXCEPT ![chunk_tasks[j].pos] = outcome]
    /\ UNCHANGED <<notBatch, upd_pc, src_outcome, sources, chunk_i, awaited,
                   all_news_items, score_k, results, written, upd_result>>

\* item["source_id"] = source_id for every item of a response
Stamp(items, sid) == [k \in 1..Len(items) |-> [items[k] EXCEPT !.source_id = sid]]

\* a fan-out in which a failed fetch loses what was gathered before it
AfterFetch_FailureDropsAll(acc, sid, outcome) ==
    IF outcome = "ok" THEN acc \o Stamp(Feed(sid), sid)
    ELSE IF outcome = "empty" THEN acc ELSE <<>>

\* the body of the await loop for one task: the items of a response are
\* stamped and appended, an empty response, an error and a timeout are logged
AfterFetch(acc, sid, outcome) ==
    IF outcome = "ok" THEN acc \o Stamp(Feed(sid), sid) ELSE acc

\* `source_data = await task` for the next task of the chunk; after the last
\* one the chunk ends with asyncio.sleep(0.1)
AwaitNext ==
    /\ upd_pc = "awaiting"
    /\ awaited < Len(chunk_tasks)
    /\ chunk_tasks[awaited + 1].state # "inflight"
    /\ all_news_items' = AfterFetch(all_news_items, chunk_tasks[awaited + 1].source_id,
                                    chunk_tasks[awaited + 1].state)
    /\ awaited' = awaited + 1
    /\ UNCHANGED <<notBatch, upd_pc, src_outcome, sources, chunk_i, chunk_tasks, outcomes,
                   score_k, results, written, upd_result>>

\* the chunk is consumed: asyncio.sleep(0.1) and the next i
EndChunk ==
    /\ upd_pc = "awaiting"
    /\ awaited = Len(chunk_tasks)
    /\ chunk_i' = chunk_i + max_concurrent
    /\ chunk_tasks' = <<>>
    /\ awaited' = 0
    /\ upd_pc' = "fanout"
    /\ UNCHANGED <<notBatch, src_outcome, sources, outcomes, all_news_items,
                   score_k, results, written, upd_result>>

\* calculate_heat_score raises for this item: it reads the title of every
\* item of the batch for the cross-source score, and the item's own url and
\* id for the HeatScoreCreate
ScoringRaises(item, batch) ==
    \/ \E k \in 1..Len(batch) : ~batch[k].has_title
    \/ ~item.has_url
    \/ item.id = Absent

\* the `except Exception` of the batch loop formats news_item['id'] into
\* its message, which raises KeyError for an item without id
HandlerRaises(item) == item.id = Absent

\* one iteration of the loop of calculate_batch_heat_scores; persist_ok is
\* whether the commit of crud create succeeds
ScoreItem(persist_ok) ==
    LET k == score_k + 1
        item == all_news_items[k]
    IN  /\ upd_pc = "scoring"
        /\ k <= Len(all_news_items)
        /\ IF ScoringRaises(item, all_news_items)
           THEN IF HandlerRaises(item)
                THEN Escape /\ UNCHANGED <<score_k, results, written>>
                ELSE /\ score_k' = k
                     /\ UNCHANGED <<upd_pc, upd_result, results, written>>
           ELSE /\ score_k' = k
                /\ IF persist_ok
                   THEN /\ written' = written \cup {k}
                        /\ results' = results \cup {item.id}
                   ELSE UNCHANGED <<results, written>>
                /\ UNCHANGED <<upd_pc, upd_result>>
        /\ UNCHANGED <<notBatch, src_outcome, sources, chunk_i, chunk_tasks, awaited,
                       outcomes, all_news_items>>

\* the batch is consumed: update_all_heat_scores returns the results map
ReturnScores ==
    /\ upd_pc = "scoring"
    /\ score_k = Len(all_news_items)
    /\ upd_pc' = "done"
    /\ upd_result' = "map"
    /\ UNCHANGED <<notBatch, src_outcome, sources, chunk_i, chunk_tasks, awaited,
                   outcomes, all_news_items, score_k, results, written>>

BatchNext ==
    \/ \E outcome \in {"ok", "fail", "timeout"}, n \in 0..MaxSources, r \in 0..4 :
          GetSources(outcome, n, r)
    \/ StartChunk
    \/ \E j \in 1..max_concurrent, outcome \in FetchOutcomes : FetchDone(j, outcome)
    \/ AwaitNext
    \/ EndChunk
    \/ \E persist_ok \in BOOLEAN : ScoreItem(persist_ok)
    \/ ReturnScores

(***************************************************************************)
(* The upstream client and the cache layer (HeatLinkAPIClient.get,         *)
(* RedisManager, MemoryCache)                                              *)
(***************************************************************************)
MaxTime == 2     \* clock ticks of a behaviour
DefaultTTL == 300

Keys == {"heatlink:sources", "heatlink:external:source:weibo"}

\* upstream response bodies after response.json(): two non-empty lists and
\* the empty list
Responses == {"[a]", "[b]", "[]"}

\* how one upstream request ends: a body, or one of the HTTPExceptions
\* _make_request raises (RequestError, 5xx or 4xx status, undecodable body)
RequestOutcomes == {"ok", "transport", "status5xx", "status4xx", "decode"}

\* cache_ttl arguments: 0 stands for None
TTLArgs == {0, 1}

\* Python truth value of a decoded value
Truthy(v) == v \notin {"[]", "null", Absent}

\* RedisManager.set: json.dumps of a list, dict, tuple or set
Serialize(v) ==
    CASE v = "[a]" -> "json:[a]"
      [] v = "[b]" -> "json:[b]"
      [] v = "[]"  -> "json:[]"
      [] OTHER     -> v

\* RedisManager.get: json.loads of the stored data, the data itself when it
\* is not JSON text
Deserialize(d) ==
    CASE d = "json:[a]" -> "[a]"
      [] d = "json:[b]" -> "[b]"
      [] d = "json:[]"  -> "[]"
      [] OTHER          -> d

NoEntry == [present |-> FALSE, data |-> Absent, exp |-> 0]

\* whether the entry of a key is served at time t: Redis drops a key when
\* its time to live is over, MemoryCache.get when _expires[key] < time()
Live(c, be, key, t) ==
    /\ c[key].present
    /\ c[key].exp # 0 => IF be = "redis" THEN t < c[key].exp ELSE t <= c[key].exp

\* RedisManager.get: the decoded value of a key, Absent for None
CacheGet(c, be, key, t) ==
    IF Live(c, be, key, t) /\ c[key].data # Absent
    THEN Deserialize(c[key].data)
    ELSE Absent

\* the cache after a get: an entry that is over is gone
CacheAfterGet(c, be, key, t) ==
    IF c[key].present /\ ~Live(c, be, key, t) THEN [c EXCEPT ![key] = NoEntry] ELSE c

\* RedisManager.set with expire: setex(key, expire, serialized_value)
CacheSetEx(c, key, v, ttl, t) ==
    [c EXCEPT ![key] = [present |-> TRUE, data |-> Serialize(v), exp |-> t + ttl]]

NoException == [type |-> "none", status_code |-> 0]

\* the status code of an upstream answer of the given kind
UpstreamStatus(outcome) == IF outcome = "status4xx" THEN 404 ELSE 502

\* the exception that leaves _make_request: every failure becomes an
\* HTTPException, with the status code of the upstream answer, 503 for a
\* transport failure and 500 for anything else (a body that is not JSON)
MakeRequestRaises(outcome) ==
    CASE outcome \in {"status4xx", "status5xx"} ->
            [type |-> "HTTPException", status_code |-> UpstreamStatus(outcome)]
      [] outcome = "transport" -> [type |-> "HTTPException", status_code |-> 503]
      [] OTHER                 -> [type |-> "HTTPException", status_code |-> 500]

\* retry_if_exception_type(HTTPException)
RetryIf(exc) == exc.type = "HTTPException"

\* what the retry decorator raises when it stops: a RetryError around the
\* last attempt (status_code is the one of the wrapped exception)
RetryError(exc) == [type |-> "RetryError", status_code |-> exc.status_code]

NoCall ==
    [pc |-> "idle", key |-> "heatlink:sources", use_cache |-> TRUE,
     force_refresh |-> FALSE, cache_ttl |-> 0, attempt |-> 0, requests |-> 0,
     waits |-> <<>>, ret |-> Absent, hit |-> FALSE, error |-> "none",
     raised |-> NoException]

ClientInit ==
    /\ now = 0
    /\ backend \in {"redis", "memory"}
    /\ cache = [k \in Keys |-> NoEntry]
    /\ call = NoCall

\* time passes
Tick ==
    /\ now < MaxTime
    /\ now' = now + 1
    /\ UNCHANGED <<backend, cache, call, notClient>>

\* a caller enters get(); the retry decorator starts attempt 1
BeginGet(key, use_cache, force_refresh, cache_ttl) ==
    /\ call.pc \in {"idle", "returned", "failed"}
    /\ call' = [NoCall EXCEPT !.pc = "attempt", !.key = key, !.use_cache = use_cache,
                              !.force_refresh = force_refresh,
                              !.cache_ttl = cache_ttl, !.attempt = 1]
    /\ UNCHANGED <<now, backend, cache, notClient>>

\* a retry policy that stops after the fourth attempt
StopAfterAttempt_Four(attempt) == attempt >= 4

\* stop_after_attempt(3)
StopAfterAttempt(attempt) == attempt >= 3

Max(a, b) == IF a > b THEN a ELSE b

\* wait_exponential(multiplier=1, min=1, max=10) after the given attempt
WaitExponential(attempt) == Max(Max(0, 1), Min(1 * 2 ^ (attempt - 1), 10))

\* `if use_cache and response_data`
ShouldStore(use_cache, response_data) == use_cache /\ Truthy(response_data)

\* a client that ignores the cache_ttl argument
EntryTTL_IgnoresOverride(cache_ttl) == DefaultTTL

\* the TTL of the entry: cache_ttl, otherwise cache_config looked up with
\* the first path segment of the endpoint, otherwise the default
EntryTTL(cache_ttl) == IF cache_ttl # 0 THEN cache_ttl ELSE DefaultTTL

\* one execution of the body of get() under the retry decorator
Attempt(outcome, resp) ==
    LET lookup == call.use_cache /\ ~call.force_refresh
        cached_data == IF lookup THEN CacheGet(cache, backend, call.key, now) ELSE Absent
        looked == IF lookup THEN CacheAfterGet(cache, backend, call.key, now) ELSE cache
    IN  /\ call.pc = "attempt"
        /\ IF Truthy(cached_data)
           THEN /\ call' = [call EXCEPT !.pc = "returned", !.ret = cached_data, !.hit = TRUE]
                /\ cache' = looked
           ELSE IF outcome = "ok"
           THEN /\ call' = [call EXCEPT !.pc = "returned", !.ret = resp,
                                        !.requests = call.requests + 1]
                /\ cache' = IF ShouldStore(call.use_cache, resp)
                            THEN CacheSetEx(looked, call.key, resp, EntryTTL(call.cache_ttl), now)
                            ELSE looked
           ELSE /\ cache' = looked
                /\ IF ~RetryIf(MakeRequestRaises(outcome))
                   THEN call' = [call EXCEPT !.pc = "failed", !.error = outcome,
                                             !.requests = call.requests + 1,
                                             !.raised = MakeRequestRaises(outcome)]
                   ELSE IF StopAfterAttempt(call.attempt)
                   THEN call' = [call EXCEPT !.pc = "failed", !.error = outcome,
                                             !.requests = call.requests + 1,
                                             !.raised = RetryError(MakeRequestRaises(outcome))]
                   ELSE call' = [call EXCEPT !.pc = "waiting", !.error = outcome,
                                             !.requests = call.requests + 1,
                                             !.raised = MakeRequestRaises(outcome),
                                             !.waits = Append(call.waits, WaitExponential(call.attempt))]
        /\ UNCHANGED <<now, backend, notClient>>

\* the backoff sleep is over: the next attempt
Retry ==
    /\ call.pc = "waiting"
    /\ call' = [call EXCEPT !.pc = "attempt", !.attempt = call.attempt + 1]
    /\ UNCHANGED <<now, backend, cache, notClient>>

ClientNext ==
    \/ Tick
    \/ \E key \in Keys, use_cache \in BOOLEAN, force_refresh \in BOOLEAN, cache_ttl \in TTLArgs :
          BeginGet(key, use_cache, force_refresh, cache_ttl)
    \/ \E outcome \in RequestOutcomes, resp \in Responses : Attempt(outcome, resp)
    \/ Retry

(***************************************************************************)
(* The cache layer on its two backends: one RedisManager whose Redis       *)
(* server answers and one whose connect fails, driven with the same calls  *)
(***************************************************************************)
MaxClock == 3

\* "A" reaches its Redis server, the connect of "B" fails
Managers == {"A", "B"}
ServerReachable(m) == m = "A"

CacheKeys == {"k1", "k2"}
CacheValues == {"[a]", "s"}

\* the expire argument of set; 0 stands for None
ExpireArgs == {0, 1, 2}

NoOp == [op |-> "none", key |-> Absent, A |-> Absent, B |-> Absent]

CacheInit ==
    /\ clock = 0
    /\ mgr = [m \in Managers |-> [is_connected |-> FALSE, using_memory_cache |-> FALSE]]
    /\ db = [m \in Managers |-> [k \in CacheKeys |-> NoEntry]]
    /\ observed = NoOp

\* RedisManager.connect: the answer of ping decides the client
Connected(m) ==
    [is_connected |-> TRUE, using_memory_cache |-> ~ServerReachable(m)]

\* the keyspace behind the client connect installs: the one of the server,
\* or the empty one of a new MemoryCache
ConnectedDb(m) ==
    IF ServerReachable(m) THEN db[m] ELSE [k \in CacheKeys |-> NoEntry]

\* `if not self.is_connected or not self.redis_client: await self.connect()`
EnsureMgr(m) == IF mgr[m].is_connected THEN mgr[m] ELSE Connected(m)
EnsureDb(m) == IF mgr[m].is_connected THEN db[m] ELSE ConnectedDb(m)

\* the backend an operation of manager m runs on
BackendOf(m) == IF EnsureMgr(m).using_memory_cache THEN "memory" ELSE "redis"

\* connect() at application start
Connect(m) ==
    /\ ~mgr[m].is_connected
    /\ mgr' = [mgr EXCEPT ![m] = Connected(m)]
    /\ db' = [db EXCEPT ![m] = ConnectedDb(m)]
    /\ UNCHANGED <<clock, observed, notCache>>

CacheTick ==
    /\ clock < MaxClock
    /\ clock' = clock + 1
    /\ UNCHANGED <<mgr, db, observed, notCache>>

\* set without expire: Redis SET drops the time to live of the key,
\* MemoryCache.set leaves _expires[key] as it is
CacheSet(c, be, key, v) ==
    [c EXCEPT ![key] = [present |-> TRUE, data |-> Serialize(v),
                        exp |-> IF be = "redis" THEN 0 ELSE c[key].exp]]

\* RedisManager.set: `if expire:` setex, otherwise set
CacheAfterSet(c, be, key, v, expire, t) ==
    IF expire # 0 THEN CacheSetEx(c, key, v, expire, t) ELSE CacheSet(c, be, key, v)

\* delete: the key and its expiry are gone
CacheAfterDelete(c, key) == [c EXCEPT ![key] = NoEntry]

\* exists: Redis does not count a key whose time to live is over,
\* MemoryCache.exists is `key in self._cache`
CacheExists(c, be, key, t) ==
    IF be = "redis" THEN Live(c, be, key, t) ELSE c[key].present

\* keys("*"): MemoryCache.keys lists _cache
CacheKeysOf(c, be, t) == {k \in CacheKeys : CacheExists(c, be, k, t)}

\* dbsize: MemoryCache.dbsize is len(_cache)
CacheDbsize(c, be, t) == Cardinality(CacheKeysOf(c, be, t))

DoGet(key) ==
    /\ mgr' = [m \in Managers |-> EnsureMgr(m)]
    /\ db' = [m \in Managers |-> CacheAfterGet(EnsureDb(m), BackendOf(m), key, clock)]
    /\ observed' = [op |-> "get", key |-> key,
                    A |-> CacheGet(EnsureDb("A"), BackendOf("A"), key, clock),
                    B |-> CacheGet(EnsureDb("B"), BackendOf("B"), key, clock)]
    /\ UNCHANGED <<clock, notCache>>

DoSet(key, v, expire) ==
    /\ mgr' = [m \in Managers |-> EnsureMgr(m)]
    /\ db' = [m \in Managers |->
                CacheAfterSet(EnsureDb(m), BackendOf(m), key, v, expire, clock)]
    /\ observed' = [op |-> "set", key |-> key, A |-> TRUE, B |-> TRUE]
    /\ UNCHANGED <<clock, notCache>>

DoDelete(key) ==
    /\ mgr' = [m \in Managers |-> EnsureMgr(m)]
    /\ db' = [m \in Managers |-> CacheAfterDelete(EnsureDb(m), key)]
    /\ observed' = [op |-> "delete", key |-> key, A |-> TRUE, B |-> TRUE]
    /\ UNCHANGED <<clock, notCache>>

DoExists(key) ==
    /\ mgr' = [m \in Managers |-> EnsureMgr(m)]
    /\ db' = [m \in Managers |-> EnsureDb(m)]
    /\ observed' = [op |-> "exists", key |-> key,
                    A |-> CacheExists(EnsureDb("A"), BackendOf("A"), key, clock),
                    B |-> CacheExists(EnsureDb("B"), BackendOf("B"), key, clock)]
    /\ UNCHANGED <<clock, notCache>>

DoKeys ==
    /\ mgr' = [m \in Managers |-> EnsureMgr(m)]
    /\ db' = [m \in Managers |-> EnsureDb(m)]
    /\ observed' = [op |-> "keys", key |-> Absent,
                    A |-> CacheKeysOf(EnsureDb("A"), BackendOf("A"), clock),
                    B |-> CacheKeysOf(EnsureDb("B"), BackendOf("B"), clock)]
    /\ UNCHANGED <<clock, notCache>>

DoDbsize ==
    /\ mgr' = [m \in Managers |-> EnsureMgr(m)]
    /\ db' = [m \in Managers |-> EnsureDb(m)]
    /\ observed' = [op |-> "dbsize", key |-> Absent,
                    A |-> CacheDbsize(EnsureDb("A"), BackendOf("A"), clock),
                    B |-> CacheDbsize(EnsureDb("B"), BackendOf("B"), clock)]
    /\ UNCHANGED <<clock, notCache>>

CacheNext ==
    \/ \E m \in Managers : Connect(m)
    \/ CacheTick
    \/ \E key \in CacheKeys : DoGet(key)
    \/ \E key \in CacheKeys, v \in CacheValues, expire \in ExpireArgs : DoSet(key, v, expire)
    \/ \E key \in CacheKeys : DoDelete(key)
    \/ \E key \in CacheKeys : DoExists(key)
    \/ DoKeys
    \/ DoDbsize

(***************************************************************************)
(* The score calculator (calculate_heat_score and its helpers) and the     *)
(* source-weight learner.  Sub-scores are in hundredths of a point, the    *)
(* final heat in ten-thousandths; times are in hours.                      *)
(***************************************************************************)
MaxBatch == 3

BASELINE_FACTOR == 10
W_KEYWORD == 30        \* the weights, in percent
W_RECENCY == 25
W_PLATFORM == 15
W_CROSS_SOURCE == 20
W_SOURCE == 10

\* datetime.now(timezone.utc) of the scoring call, in hours
NowHour == 24

\* _tokenize_text then set(): lower case, split, stop words removed
Tokens(title) ==
    CASE title = "AI chip war"     -> {"ai", "chip", "war"}
      [] title = "the AI chip war" -> {"ai", "chip", "war"}
      [] title = "AI chip deal"    -> {"ai", "chip", "deal"}
      [] title = "rain today"      -> {"rain", "today"}
      [] OTHER                     -> {}

\* the (title, source_id) pairs batches are made of; "of the" has stop
\* words only
ItemPool ==
    << [title |-> "AI chip war", source_id |-> "weibo"],
       [title |-> "AI chip war", source_id |-> "zhihu"],
       [title |-> "the AI chip war", source_id |-> "rss1"],
       [title |-> "AI chip deal", source_id |-> "zhihu"],
       [title |-> "rain today", source_id |-> "rss1"],
       [title |-> "of the", source_id |-> "weibo"] >>

\* the batches: up to MaxBatch items of the pool, in pool order (the order
\* of a batch does not enter any score)
Batches ==
    LET Picks == UNION {[1..n -> 1..Len(ItemPool)] : n \in 1..MaxBatch}
        Ordered(f) == \A i \in 1..(Len(f) - 1) : f[i] <= f[i + 1]
    IN  {[i \in 1..Len(f) |-> ItemPool[f[i]]] : f \in {g \in Picks : Ordered(g)}}

\* the single weibo item
SingleWeibo == <<ItemPool[1]>>

\* metrics of an item: no metrics key, or a view_count
MetricsArgs ==
    {[has |-> FALSE, view_count |-> 0]} \cup
    {[has |-> TRUE, view_count |-> v] : v \in {-5000, 10000, 20000}}

\* published_at strings: the wall clock hour they show and how they end
PublishedArgs ==
    { [wall |-> 24, zone |-> "Z"], [wall |-> 24, zone |-> "+00:00"],
      [wall |-> 24, zone |-> "naive"], [wall |-> 32, zone |-> "+08:00"],
      [wall |-> 0, zone |-> "Z"], [wall |-> 48, zone |-> "Z"],
      [wall |-> 0, zone |-> "garbled"] }

\* items the keyword searches of the upstream return in all
SimilarCounts == {0, 20}

\* a comparison that already accepts a similarity of 0.5
Similar_Half(title1, title2) ==
    LET words1 == Tokens(title1)
        words2 == Tokens(title2)
        intersection == Cardinality(words1 \cap words2)
        union == Cardinality(words1 \cup words2)
    IN  IF union = 0 THEN FALSE ELSE 10 * intersection >= 5 * union

\* _calculate_title_similarity > 0.6, on the token sets
Similar(title1, title2) ==
    LET words1 == Tokens(title1)
        words2 == Tokens(title2)
        intersection == Cardinality(words1 \cap words2)
        union == Cardinality(words1 \cup words2)
    IN  IF union = 0 THEN FALSE ELSE 10 * intersection > 6 * union

\* a cross-source score that leaves out the items carrying the very title
CrossSourceScore_OtherTitles(title, items) ==
    LET srcs == {items[j].source_id :
                    j \in {i \in 1..Len(items) :
                              items[i].title # title /\ Similar(title, items[i].title)}}
    IN  Min(Cardinality(srcs) * 1000, 10000)

\* _calculate_cross_source_score: every item of the batch is compared, the
\* scored one included
CrossSourceScore(title, items) ==
    LET srcs == {items[j].source_id : j \in {i \in 1..Len(items) : Similar(title, items[i].title)}}
    IN  Min(Cardinality(srcs) * 1000, 10000)

\* _normalize_platform_score
PlatformBaseline(source_id) ==
    CASE source_id = "weibo"   -> 10000
      [] source_id = "zhihu"   -> 5000
      [] source_id = "toutiao" -> 8000
      [] OTHER                 -> 1000

NormalizePlatformScore(metrics, source_id) ==
    Min((metrics.view_count * 10000) \div PlatformBaseline(source_id), 10000)

\* _get_source_weight: the fixed table
SourceWeight(source_id) ==
    CASE source_id \in {"weibo", "baidu"} -> 9000
      [] source_id = "zhihu"              -> 8500
      [] source_id = "toutiao"            -> 8000
      [] source_id = "sina"               -> 7500
      [] source_id \in {"163", "qq"}      -> 7000
      [] source_id \in {"sohu", "ifeng"}  -> 6500
      [] OTHER                            -> 5000

\* the datetime calculate_heat_score parses published_at into: 'Z' becomes
\* '+00:00', a string without offset gets '+00:00' appended, a string with
\* an offset keeps it; a string that does not parse gives the current time
ParsePublished(published) ==
    CASE published.zone \in {"Z", "+00:00", "naive"} -> [wall |-> published.wall, utcoffset |-> 0]
      [] published.zone = "+08:00" -> [wall |-> published.wall, utcoffset |-> 8]
      [] OTHER -> [wall |-> NowHour, utcoffset |-> 0]

\* the UTC instant of an aware datetime
Instant(dt) == dt.wall - dt.utcoffset

\* 100 * math.exp(-hours_passed / DECAY_FACTOR) with DECAY_FACTOR = 24.0,
\* tabulated for the hours the inputs produce
RecencyScore(hours_passed) ==
    CASE hours_passed = -24 -> 27183
      [] hours_passed = -16 -> 19477
      [] hours_passed = -8  -> 13956
      [] hours_passed = 0   -> 10000
      [] hours_passed = 8   -> 7165
      [] hours_passed = 16  -> 5134
      [] hours_passed = 24  -> 3679
      [] hours_passed = 32  -> 2636
      [] hours_passed = 40  -> 1889
      [] hours_passed = 48  -> 1353

\* crud create: data["published_at"].replace(tzinfo=None)
StripTzinfo(dt) == dt.wall

NoRow ==
    [news_id |-> 0, source_id |-> Absent, title |-> Absent, heat_score |-> 0,
     relevance_score |-> 0, recency_score |-> 0, popularity_score |-> 0,
     cross_source_score |-> 0, source_weight |-> 0, published_at |-> 0]

\* the row calculate_heat_score builds for news_item (item k of the batch
\* with the given metrics, published_at and search results) and create stores
HeatScoreRow(k, items, metrics, published, similar_count) ==
    LET news_item == items[k]
        keyword_score == Min((similar_count * 10000) \div BASELINE_FACTOR, 10000)
        published_time == ParsePublished(published)
        hours_passed == NowHour - Instant(published_time)
        recency_score == RecencyScore(hours_passed)
        platform_score == IF metrics.has
                          THEN NormalizePlatformScore(metrics, news_item.source_id)
                          ELSE 0
        cross_source_score == CrossSourceScore(news_item.title, items)
        source_weight == SourceWeight(news_item.source_id)
        final_score == W_KEYWORD * keyword_score + W_RECENCY * recency_score
                       + W_PLATFORM * platform_score
                       + W_CROSS_SOURCE * cross_source_score
                       + W_SOURCE * source_weight
    IN  [news_id |-> k, source_id |-> news_item.source_id, title |-> news_item.title,
         heat_score |-> Min(Max(final_score, 0), 1000000),
         relevance_score |-> keyword_score, recency_score |-> recency_score,
         popularity_score |-> platform_score,
         cross_source_score |-> cross_source_score, source_weight |-> source_weight,
         published_at |-> StripTzinfo(published_time)]

SourceIds == {ItemPool[i].source_id : i \in 1..Len(ItemPool)}

\* a source the learner stored nothing for
NoStats == [avg_engagement |-> 0, update_frequency |-> 0, item_count |-> 0]

ScoreInit ==
    /\ sc_batch \in Batches
    /\ sc_in \in [metrics : MetricsArgs, published : PublishedArgs,
                   similar_count : SimilarCounts]
    /\ sc_row = NoRow
    /\ sw_cache = [s \in SourceIds |-> 0]
    /\ sw_stats = [s \in SourceIds |-> NoStats]

\* calculate_heat_score(news_item, all_news_items, session) for item k
CalculateHeatScore(k) ==
    /\ k \in 1..Len(sc_batch)
    /\ sc_row' = HeatScoreRow(k, sc_batch, sc_in.metrics, sc_in.published,
                              sc_in.similar_count)
    /\ UNCHANGED <<sc_batch, sc_in, sw_cache, sw_stats, notScore>>

\* update_source_weights: base_weight of a source
BaseWeight(source_id) ==
    CASE source_id = "weibo" -> 9000
      [] source_id \in {"zhihu", "toutiao", "baidu", "bbc_world", "bloomberg"} -> 8500
      [] source_id \in {"bilibili", "douyin"} -> 8000
      [] source_id \in {"kuaishou", "36kr", "wallstreetcn"} -> 7500
      [] source_id \in {"thepaper", "ithome", "zaobao", "hackernews"} -> 7000
      [] source_id = "v2ex" -> 6500
      [] source_id = "github" -> 6000
      [] OTHER -> 5000

\* update_source_weights: the weight of a source from the average
\* engagement of its items and its update frequency
LearnedWeight(source_id, avg_engagement, update_frequency) ==
    LET engagement_score == Min(avg_engagement \div 1000, 10000)
        source_weight == (50 * BaseWeight(source_id) + 30 * engagement_score
                          + 20 * update_frequency) \div 100
    IN  Max(Min(source_weight, 10000), 1000)

\* update_source_weights: the baseline the engagement of an item is
\* normalized against
EngagementBaseline(source_id) ==
    CASE source_id = "weibo"    -> 10000
      [] source_id = "zhihu"    -> 5000
      [] source_id = "bilibili" -> 3000
      [] source_id = "toutiao"  -> 8000
      [] source_id = "36kr"     -> 2000
      [] OTHER                  -> 1000

RECURSIVE AvgEngagement(_, _, _)
\* avg_engagement after the loop over news_items[n..]: the sum of
\* min(engagement / baseline * 100, 100), divided by total_items at the end
AvgEngagement(source_id, engagements, n) ==
    IF n > Len(engagements) THEN 0
    ELSE LET normalized_engagement ==
                 Min((engagements[n] * 10000) \div EngagementBaseline(source_id), 10000)
             sum == normalized_engagement + AvgEngagement(source_id, engagements, n + 1)
         IN  IF n = 1 THEN sum \div Len(engagements) ELSE sum

\* one run of update_source_weights that found items with the given raw
\* engagements for the sources of with_items: the record it stores under
\* the source_weights key
UpdateSourceWeights(with_items, engagements, update_frequency) ==
    /\ with_items # {}
    /\ sw_cache' = [s \in SourceIds |->
                      IF s \in with_items
                      THEN LearnedWeight(s, AvgEngagement(s, engagements, 1),
                                         update_frequency)
                      ELSE 0]
    /\ sw_stats' = [s \in SourceIds |->
                      IF s \in with_items
                      THEN [avg_engagement |-> AvgEngagement(s, engagements, 1),
                            update_frequency |-> update_frequency,
                            item_count |-> Len(engagements)]
                      ELSE NoStats]
    /\ UNCHANGED <<sc_batch, sc_in, sc_row, notScore>>

\* raw engagements of the items of a source: view + 3 like + 5 comment +
\* 10 share of each item
EngagementArgs == {<<20000>>, <<5000, 20000>>, <<-5000>>}

ScoreNext ==
    \/ \E k \in 1..MaxBatch : CalculateHeatScore(k)
    \/ \E with_items \in {{"weibo"}, SourceIds}, engagements \in EngagementArgs :
          UpdateSourceWeights(with_items, engagements, 5000)

(***************************************************************************)
(* The HeatScore store and its queries (app/crud/news_heat_score.py).      *)
(* Heats are in points, times in hours; calculated_at is the insertion     *)
(* time, which no two rows share.                                          *)
(***************************************************************************)
MaxStoreRows == 3

BATCH_SIZE == 100

\* datetime.now(timezone.utc) of a query, in hours
StoreNow == 100

\* None for the optional arguments min_score and max_age_hours
NONE == -1

NewsIds == {"n1", "n2"}

NoStoreRow == [id |-> 0, news_id |-> Absent, heat_score |-> 0, published_at |-> 0,
               calculated_at |-> 0]

\* the row create() inserts as the n-th one
StoreRow(n, news_id, heat_score, published_at) ==
    [id |-> n, news_id |-> news_id, heat_score |-> heat_score,
     published_at |-> published_at, calculated_at |-> n]

\* five rows with the heats 90, 70, 55, 40 and 10, all of the last 24 h
ExampleStore ==
    << StoreRow(1, "n1", 55, StoreNow - 1), StoreRow(2, "n2", 90, StoreNow - 1),
       StoreRow(3, "n3", 10, StoreNow - 1), StoreRow(4, "n4", 70, StoreNow - 1),
       StoreRow(5, "n5", 40, StoreNow - 1) >>

\* id lists: an id repeated `head` times, then up to two more ids
IdLists ==
    LET Tails == UNION {[1..n -> NewsIds] : n \in 0..2}
    IN  {[i \in 1..(head + Len(tail)) |-> IF i <= head THEN "n1" ELSE tail[i - head]] :
            head \in {0, BATCH_SIZE}, tail \in Tails}

MultiQueries == {[op |-> "multi", news_ids |-> ids] : ids \in IdLists}

TopQueries ==
    [op : {"top"}, limit : {0, 1, 3}, skip : {0, 1}, min_score : {NONE, 50},
     max_age_hours : {NONE, 24}]

NoResult == [done |-> FALSE, value |-> <<>>]

StoreInit ==
    /\ st_store \in {<<>>, ExampleStore}
    /\ st_query \in MultiQueries \cup TopQueries
    /\ st_result = NoResult

\* create(): one more row, committed
StoreCreate(news_id, heat_score, published_at) ==
    /\ Len(st_store) < MaxStoreRows
    /\ st_store' = Append(st_store, StoreRow(Len(st_store) + 1, news_id, heat_score,
                                             published_at))
    /\ st_result' = NoResult
    /\ UNCHANGED <<st_query, notStore>>

Range(f) == {f[i] : i \in DOMAIN f}

RECURSIVE OrderByCalculatedAtDesc(_)
\* order_by(desc(calculated_at)) of a set of rows
OrderByCalculatedAtDesc(rows) ==
    IF rows = {} THEN <<>>
    ELSE LET r == CHOOSE x \in rows : \A y \in rows : y.calculated_at <= x.calculated_at
         IN  <<r>> \o OrderByCalculatedAtDesc(rows \ {r})

\* select ... where news_id in ids order by calculated_at desc
SelectByNewsIds(store, ids) ==
    OrderByCalculatedAtDesc({r \in Range(store) : r.news_id \in Range(ids)})

\* get_by_news_id: the first row of the ordered result, None without rows
GetByNewsId(store, news_id) ==
    LET rows == SelectByNewsIds(store, <<news_id>>)
    IN  IF rows = <<>> THEN NoStoreRow ELSE rows[1]

\* all_scores = {}
NoScores == [id \in NewsIds |-> NoStoreRow]

RECURSIVE KeepLast(_, _)
\* a merge that lets every later row of an id replace the one kept
KeepLast(rows, all_scores) ==
    IF rows = <<>> THEN all_scores
    ELSE KeepLast(Tail(rows), [all_scores EXCEPT ![Head(rows).news_id] = Head(rows)])

RECURSIVE KeepFirst(_, _)
\* `for row in scalar_result: if row.news_id not in all_scores: ...`
KeepFirst(rows, all_scores) ==
    IF rows = <<>> THEN all_scores
    ELSE KeepFirst(Tail(rows),
                   IF all_scores[Head(rows).news_id] = NoStoreRow
                   THEN [all_scores EXCEPT ![Head(rows).news_id] = Head(rows)]
                   ELSE all_scores)

RECURSIVE MultiBatches(_, _, _, _)
\* `for i in range(0, len(news_ids), BATCH_SIZE)`: one query per slice
MultiBatches(store, news_ids, i, all_scores) ==
    IF i >= Len(news_ids) THEN all_scores
    ELSE LET batch_ids == SubSeq(news_ids, i + 1, Min(i + BATCH_SIZE, Len(news_ids)))
         IN  MultiBatches(store, news_ids, i + BATCH_SIZE,
                          KeepFirst(SelectByNewsIds(store, batch_ids), all_scores))

\* get_multi_by_news_ids
GetMultiByNewsIds(store, news_ids) ==
    IF Len(news_ids) > BATCH_SIZE
    THEN MultiBatches(store, news_ids, 0, NoScores)
    ELSE KeepFirst(SelectByNewsIds(store, news_ids), NoScores)

\* the where clauses of get_top_heat_scores
Qualifies(r, q) ==
    /\ q.max_age_hours # NONE => r.published_at >= StoreNow - q.max_age_hours
    /\ q.min_score # NONE => r.heat_score >= q.min_score

RECURSIVE OrderByHeatDesc(_)
\* order_by(desc(heat_score)): every order the database may return, rows
\* of equal heat in any order
OrderByHeatDesc(rows) ==
    IF rows = {} THEN {<<>>}
    ELSE UNION {{<<r>> \o rest : rest \in OrderByHeatDesc(rows \ {r})} :
                   r \in {x \in rows : \A y \in rows : y.heat_score <= x.heat_score}}

\* `if skip: offset(skip)` and `if limit: limit(limit)`
Paginate(rows, skip, limit) ==
    LET after_skip == IF skip # 0 THEN SubSeq(rows, skip + 1, Len(rows)) ELSE rows
    IN  IF limit # 0
        THEN SubSeq(after_skip, 1, Min(limit, Len(after_skip)))
        ELSE after_skip

\* get_multi_by_news_ids(db, news_ids)
RunGetMulti ==
    /\ st_query.op = "multi"
    /\ st_result' = [done |-> TRUE, value |-> GetMultiByNewsIds(st_store, st_query.news_ids)]
    /\ UNCHANGED <<st_store, st_query, notStore>>

\* get_top_heat_scores(db, limit, skip, min_score, max_age_hours)
RunGetTop ==
    /\ st_query.op = "top"
    /\ \E rows \in OrderByHeatDesc({r \in Range(st_store) : Qualifies(r, st_query)}) :
          st_result' = [done |-> TRUE,
                        value |-> Paginate(rows, st_query.skip, st_query.limit)]
    /\ UNCHANGED <<st_store, st_query, notStore>>

StoreNext ==
    \/ \E news_id \in NewsIds, heat_score \in {90, 40},
          published_at \in {StoreNow, StoreNow - 48} :
          StoreCreate(news_id, heat_score, published_at)
    \/ RunGetMulti
    \/ RunGetTop

(***************************************************************************)
(* The category backfill (run_category_update, app/api/v1/heat_score.py)   *)
(***************************************************************************)
MaxBackfillRows == 2   \* rows of the table before the run

SelectLimit == 5000    \* .limit(5000) of the select
CommitEvery == 100     \* `if updated_count % 100 == 0: await session.commit()`

\* how get_sources() ends for the run: it raises, it lists no source with a
\* category, or it lists weibo with the category "hot"
SourcesAnswers == {"fail", "none", "listed"}

\* source_categories after the try block: the map built from the answer, the
\* seven-entry default when that map is empty, the six-entry default when
\* get_sources raised; "" stands for a source_id the map has no entry for
SourceCategories(answer) ==
    [source_id \in {"weibo", "36kr", "rss1"} |->
        CASE answer = "listed" -> IF source_id = "weibo" THEN "hot" ELSE ""
          [] answer = "none"   -> CASE source_id = "weibo" -> "social"
                                    [] source_id = "36kr"  -> "technology"
                                    [] OTHER               -> ""
          [] OTHER             -> IF source_id = "weibo" THEN "social" ELSE ""]

\* the meta_data a row can hold: NULL, a dictionary without the key
\* category, one with an empty category and one with a category
MetaData ==
    {[null |-> TRUE,  has_category |-> FALSE, category |-> ""],
     [null |-> FALSE, has_category |-> FALSE, category |-> ""],
     [null |-> FALSE, has_category |-> TRUE,  category |-> ""],
     [null |-> FALSE, has_category |-> TRUE,  category |-> "social"]}

BackfillRows == [source_id : {"weibo", "36kr", "rss1"}, meta_data : MetaData]

BackfillInit ==
    /\ bf_pc = "idle"
    /\ bf_cat = SourceCategories("fail")
    /\ bf_store \in UNION {[1..n -> BackfillRows] : n \in 0..MaxBackfillRows}
    /\ bf_records = <<>>

\* the WHERE clause: meta_data IS NULL OR NOT (meta_data ? 'category')
NeedsCategory(row) == row.meta_data.null \/ ~row.meta_data.has_category

RECURSIVE SelectRecords(_, _)
\* the records the select loads, at most SelectLimit of them: each one is
\* the row it was loaded from and the meta_data attribute of the object
SelectRecords(store, n) ==
    IF n > Len(store) THEN <<>>
    ELSE IF NeedsCategory(store[n])
         THEN <<[row |-> n, meta_data |-> store[n].meta_data, modified |-> FALSE]>>
              \o SelectRecords(store, n + 1)
         ELSE SelectRecords(store, n + 1)

\* the start of the run: source_categories and the selected records
BackfillSelect(answer) ==
    /\ bf_pc = "idle"
    /\ bf_cat' = SourceCategories(answer)
    /\ bf_records' = SubSeq(SelectRecords(bf_store, 1), 1,
                            Min(Len(SelectRecords(bf_store, 1)), SelectLimit))
    /\ bf_pc' = "updating"
    /\ UNCHANGED <<bf_store, notBackfill>>

\* source_categories.get(source_id, "others")
InferCategory(cat, source_id) == IF cat[source_id] = "" THEN "others" ELSE cat[source_id]

\* the loop body on one record.  meta_data is a plain JSON column
\* (models/news_heat_score.py:31): assigning the attribute marks the object
\* modified, setting a key of the dictionary it already holds does not
SetCategory(record, category) ==
    IF record.meta_data.null
    THEN [record EXCEPT !.meta_data = [null |-> FALSE, has_category |-> TRUE,
                                       category |-> category],
                        !.modified = TRUE]
    ELSE [record EXCEPT !.meta_data.has_category = TRUE,
                        !.meta_data.category = category]

\* session.commit(): the UPDATE of every object the session holds modified
Flush(store, records) ==
    [n \in 1..Len(store) |->
        IF \E j \in 1..Len(records) : records[j].row = n /\ records[j].modified
        THEN [store[n] EXCEPT !.meta_data =
                 records[CHOOSE j \in 1..Len(records) : records[j].row = n].meta_data]
        ELSE store[n]]

\* the records the loop has handled: those that carry a category
Updated(records) == {j \in 1..Len(records) : records[j].meta_data.has_category}

\* one iteration of `for record in records`, with the commit of every
\* hundredth record
BackfillRecord ==
    LET j == Cardinality(Updated(bf_records)) + 1
        after == [bf_records EXCEPT
                     ![j] = SetCategory(bf_records[j],
                                        InferCategory(bf_cat, bf_store[bf_records[j].row].source_id))]
    IN  /\ bf_pc = "updating"
        /\ j <= Len(bf_records)
        /\ bf_records' = after
        /\ bf_store' = IF j % CommitEvery = 0 THEN Flush(bf_store, after) ELSE bf_store
        /\ UNCHANGED <<bf_pc, bf_cat, notBackfill>>

\* after the loop: the commit of the remaining changes
BackfillFinish ==
    /\ bf_pc = "updating"
    /\ Cardinality(Updated(bf_records)) = Len(bf_records)
    /\ bf_store' = IF Len(bf_records) % CommitEvery # 0
                   THEN Flush(bf_store, bf_records) ELSE bf_store
    /\ bf_pc' = "done"
    /\ UNCHANGED <<bf_cat, bf_records, notBackfill>>

BackfillNext ==
    \/ \E answer \in SourcesAnswers : BackfillSelect(answer)
    \/ BackfillRecord
    \/ BackfillFinish

(***************************************************************************)
(* The keyword extractor, the Keyword list of a stored row and the         *)
(* trending aggregator (update_keyword_heat) with the endpoint that serves *)
(* its list.  Weights and keyword heats are in hundredths, row heats in    *)
(* points, times in hours.                                                 *)
(***************************************************************************)
MaxTrendCreates == 1   \* rows the batch updater adds in a behaviour
MaxTrendHours == 2     \* hours that pass in a behaviour

CACHE_TTL == 3600
MaxAgeHours == 12      \* max_age_hours=12 of the aggregator's query
MinScore == 20         \* min_score=20

Keyword(word, weight, type) == [word |-> word, weight |-> weight, type |-> type]

\* _extract_keywords on an English title without content: the words of
\* more than two letters with weight count/total, then the most common
\* pairs of such words as phrases
ExtractKeywords(title) ==
    CASE title = "AI chip war" ->
            << Keyword("chip", 33, "keyword"), Keyword("war", 33, "keyword"),
               Keyword("chip war", 33, "phrase") >>
      [] title = "rain today" ->
            << Keyword("rain", 50, "keyword"), Keyword("today", 50, "keyword"),
               Keyword("rain today", 50, "phrase"), Keyword("today rain", 33, "phrase") >>
      [] OTHER -> <<>>

TrendTitles == {"AI chip war", "rain today"}

\* HeatScoreCreate(keywords=...).model_dump(): an item is validated as
\* KeywordBase, whose fields are word and weight; Absent is a missing key
KeywordDump(keywords) ==
    [k \in 1..Len(keywords) |-> [keywords[k] EXCEPT !.type = Absent]]

TrendRow(id, source_id, title, heat_score, published_at, keywords) ==
    [id |-> id, source_id |-> source_id, title |-> title, heat_score |-> heat_score,
     published_at |-> published_at, keywords |-> keywords]

\* rows of the table whose Keyword lists carry types, published at hour 0:
\* "chip" is a keyword of all six and of three sources, "chip war" a phrase
\* of rows 1 to 3 and "AI chips" a topic of rows 1 and 2; the weight of
\* "chip" in row 6 is far above 1
TypedRows ==
    << TrendRow(1, "weibo", "AI chips: chip war", 90, 0,
                << Keyword("chip", 33, "keyword"), Keyword("chip war", 33, "phrase"),
                   Keyword("AI chips", 100, "topic") >>),
       TrendRow(2, "zhihu", "AI chips: chip war", 80, 0,
                << Keyword("chip", 33, "keyword"), Keyword("chip war", 33, "phrase"),
                   Keyword("AI chips", 100, "topic") >>),
       TrendRow(3, "weibo", "the chip war", 70, 0,
                << Keyword("chip", 33, "keyword"), Keyword("chip war", 33, "phrase") >>),
       TrendRow(4, "zhihu", "chip", 65, 0, << Keyword("chip", 100, "keyword") >>),
       TrendRow(5, "weibo", "chip", 55, 0, << Keyword("chip", 100, "keyword") >>),
       TrendRow(6, "rss1", "chip", 45, 0, << Keyword("chip", 50000, "keyword") >>) >>

RECURSIVE SubSequences(_)
\* the sequences that keep some of the rows, in their order
SubSequences(rows) ==
    IF rows = <<>> THEN {<<>>}
    ELSE LET rest == SubSequences(Tail(rows))
         IN  rest \cup {<<Head(rows)>> \o r : r \in rest}

NoEntryOfKeywords == [present |-> FALSE, value |-> <<>>, exp |-> 0]

TrendInit ==
    /\ tr_now = MaxAgeHours
    /\ tr_store \in SubSequences(TypedRows)
    /\ tr_cache = NoEntryOfKeywords
    /\ tr_run = [at |-> NONE, value |-> <<>>]

TrendTick ==
    /\ tr_now < MaxAgeHours + MaxTrendHours
    /\ tr_now' = tr_now + 1
    /\ UNCHANGED <<tr_store, tr_cache, tr_run, notTrend>>

\* calculate_heat_score for an item, from the extractor to create(): the
\* row carries the dump of the HeatScoreCreate
TrendCreate(source_id, title, heat_score) ==
    /\ Cardinality({n \in 1..Len(tr_store) : tr_store[n].id > Len(TypedRows)})
          < MaxTrendCreates
    /\ tr_store' = Append(tr_store,
                          TrendRow(Len(TypedRows) + 1 + Len(tr_store), source_id, title,
                                   heat_score, tr_now,
                                   KeywordDump(ExtractKeywords(title))))
    /\ UNCHANGED <<tr_now, tr_cache, tr_run, notTrend>>

RECURSIVE Occurrences(_)
\* the two loops over heat_scores and score.keywords, flattened: one entry
\* per keyword_item with a word, with the defaults of the .get calls
Occurrences(rows) ==
    IF rows = <<>> THEN <<>>
    ELSE LET score == Head(rows)
             items == [k \in 1..Len(score.keywords) |->
                          [word |-> score.keywords[k].word,
                           weight |-> score.keywords[k].weight,
                           type |-> IF score.keywords[k].type = Absent
                                    THEN "keyword" ELSE score.keywords[k].type,
                           heat_score |-> score.heat_score,
                           source_id |-> score.source_id]]
         IN  SelectSeq(items, LAMBDA it : it.word # Absent) \o Occurrences(Tail(rows))

RECURSIVE SumOf(_, _)
SumOf(occ, field) ==
    IF occ = <<>> THEN 0 ELSE Head(occ)[field] + SumOf(Tail(occ), field)

RECURSIVE WordsInOrder(_, _)
\* the keys of keyword_counts in insertion order
WordsInOrder(occ, seen) ==
    IF occ = <<>> THEN <<>>
    ELSE IF Head(occ).word \in seen THEN WordsInOrder(Tail(occ), seen)
         ELSE <<Head(occ).word>> \o WordsInOrder(Tail(occ), seen \cup {Head(occ).word})

\* keyword_counts[word]: the type is the one of the first occurrence
KeywordCounts(occ, word) ==
    LET mine == SelectSeq(occ, LAMBDA it : it.word = word)
    IN  [count |-> Len(mine), total_weight |-> SumOf(mine, "weight"),
         total_heat |-> SumOf(mine, "heat_score"),
         sources |-> {mine[k].source_id : k \in 1..Len(mine)},
         type |-> mine[1].type]

\* a filter with one threshold for all types
ShouldInclude_AnyTwoSources(data) == Cardinality(data.sources) >= 2

\* should_include
ShouldInclude(data) ==
    CASE data.type = "topic"  -> Cardinality(data.sources) >= 2
      [] data.type = "phrase" -> Cardinality(data.sources) >= 2 /\ data.count >= 2
      [] OTHER                -> Cardinality(data.sources) >= 3 /\ data.count >= 1

\* the heat of an included word: count * mean weight * mean heat * sources,
\* divided by 500, 750 or 1000, at most 100
KeywordHeat(data) ==
    LET divisor == CASE data.type = "topic" -> 500
                     [] data.type = "phrase" -> 750
                     [] OTHER -> 1000
    IN  Min((data.total_weight * data.total_heat * Cardinality(data.sources))
                \div (data.count * divisor),
            10000)

RECURSIVE SortByHeatDesc(_)
\* list.sort(key=heat, reverse=True): stable, entries of equal heat keep
\* their order
SortByHeatDesc(entries) ==
    IF entries = <<>> THEN <<>>
    ELSE LET top == CHOOSE k \in 1..Len(entries) :
                       /\ \A j \in 1..Len(entries) : entries[j].heat <= entries[k].heat
                       /\ \A j \in 1..(k - 1) : entries[j].heat < entries[k].heat
         IN  <<entries[top]>>
             \o SortByHeatDesc([j \in 1..(Len(entries) - 1) |->
                                   IF j < top THEN entries[j] ELSE entries[j + 1]])

\* keyword_heat, the list of the included words, sorted and cut to the
\* first 300
TopKeywords(rows) ==
    LET occ == Occurrences(rows)
        words == WordsInOrder(occ, {})
        all == [k \in 1..Len(words) |->
                   [keyword |-> words[k], data |-> KeywordCounts(occ, words[k])]]
        kept == SelectSeq(all, LAMBDA e : ShouldInclude(e.data))
        keyword_heat == [k \in 1..Len(kept) |->
                            [keyword |-> kept[k].keyword, heat |-> KeywordHeat(kept[k].data),
                             count |-> kept[k].data.count,
                             sources |-> kept[k].data.sources,
                             type |-> kept[k].data.type]]
        sorted == SortByHeatDesc(keyword_heat)
    IN  SubSeq(sorted, 1, Min(Len(sorted), 300))

RECURSIVE DescByHeat(_)
\* order_by(desc(heat_score)) on a set of rows: every order the database
\* may return, rows of equal heat in any order
DescByHeat(rows) ==
    IF rows = {} THEN {<<>>}
    ELSE UNION {{<<r>> \o rest : rest \in DescByHeat(rows \ {r})} :
                   r \in {x \in rows : \A y \in rows : y.heat_score <= x.heat_score}}

\* the rows get_top_heat_scores may return for the aggregator, of which it
\* takes at most 1000
RecentHotRows ==
    DescByHeat({r \in Range(tr_store) :
                   r.published_at >= tr_now - MaxAgeHours /\ r.heat_score >= MinScore})

\* one run of update_keyword_heat, at most one in an hour; the list is
\* stored for CACHE_TTL * 2 seconds `if keyword_heat`
UpdateKeywordHeat ==
    /\ tr_run.at # tr_now
    /\ \E heat_scores \in RecentHotRows :
          LET top_keywords == TopKeywords(Paginate(heat_scores, 0, 1000))
          IN  /\ tr_run' = [at |-> tr_now, value |-> top_keywords]
              /\ tr_cache' = IF top_keywords # <<>>
                             THEN [present |-> TRUE, value |-> top_keywords,
                                   exp |-> tr_now + (CACHE_TTL * 2) \div 3600]
                             ELSE tr_cache
    /\ UNCHANGED <<tr_now, tr_store, notTrend>>

\* get_hot_keywords(limit, min_heat) on a Redis that drops a key when its
\* time to live is over: [] without cached data, otherwise the entries of
\* at least min_heat, cut to limit
GetHotKeywords(entry, t, limit, min_heat) ==
    LET cached_data == IF entry.present /\ t < entry.exp THEN entry.value ELSE <<>>
        keywords == SelectSeq(cached_data, LAMBDA kw : kw.heat >= min_heat)
    IN  SubSeq(keywords, 1, Min(Len(keywords), limit))

TrendNext ==
    \/ TrendTick
    \/ \E source_id \in {"weibo", "rss1"}, title \in TrendTitles, heat_score \in {10, 60} :
          TrendCreate(source_id, title, heat_score)
    \/ UpdateKeywordHeat

(***************************************************************************)
(* The cache key of an upstream GET (HeatLinkAPIClient.get)                *)
(***************************************************************************)
MaxParams == 2   \* parameters of one GET

ParamNames == <<"limit", "page", "q">>
ParamValues == {"1", "2"}

\* the params dictionaries of up to MaxParams entries, as the sequence of
\* their items in insertion order
ParamDicts ==
    LET names == {ParamNames[n] : n \in 1..Min(Len(ParamNames), MaxParams + 1)}
    IN  UNION {{p \in [1..n -> [k : names, v : ParamValues]] :
                   \A i, j \in 1..n : i # j => p[i].k # p[j].k} : n \in 0..MaxParams}

Endpoints == {"news", "external/sources"}

\* cache_key_prefix arguments: Absent stands for None
PrefixArgs == {Absent, "search"}

KeyInit ==
    /\ ck_calls \in [1..2 -> [endpoint : Endpoints, cache_key_prefix : PrefixArgs,
                              params : ParamDicts]]
    /\ ck_calls[1].endpoint = ck_calls[2].endpoint
    /\ ck_calls[1].cache_key_prefix = ck_calls[2].cache_key_prefix
    /\ ck_keys = [i \in 1..2 |-> Absent]

\* endpoint.replace("/", ":")
ReplaceSlash(endpoint) ==
    IF endpoint = "external/sources" THEN "external:sources" ELSE endpoint

RECURSIVE ParamStr(_)
\* ":".join([f"{k}={v}" for k, v in params.items()])
ParamStr(params) ==
    IF params = <<>> THEN ""
    ELSE IF Len(params) = 1 THEN params[1].k \o "=" \o params[1].v
         ELSE params[1].k \o "=" \o params[1].v \o ":" \o ParamStr(Tail(params))

\* f"heatlink:{cache_key_prefix}:{param_str}".rstrip(":")
CacheKey(endpoint, cache_key_prefix, params) ==
    LET prefix == IF cache_key_prefix = Absent THEN ReplaceSlash(endpoint)
                  ELSE cache_key_prefix
    IN  IF ParamStr(params) = "" THEN "heatlink:" \o prefix
        ELSE "heatlink:" \o prefix \o ":" \o ParamStr(params)

\* the i-th GET builds its cache key
BuildKey(i) ==
    /\ ck_keys[i] = Absent
    /\ ck_keys' = [ck_keys EXCEPT ![i] = CacheKey(ck_calls[i].endpoint,
                                                  ck_calls[i].cache_key_prefix,
                                                  ck_calls[i].params)]
    /\ UNCHANGED <<ck_calls, notKey>>

KeyNext == \E i \in 1..2 : BuildKey(i)

(***************************************************************************)
(* Specifications                                                          *)
(***************************************************************************)
\* the store when it is not under study
IdleStore == st_store = <<>> /\ st_query = [op |-> "multi", news_ids |-> <<>>] /\ StoreInit

\* the backfill, the aggregator and the cache keys when they are not the
\* part under study
IdleBackfill == bf_store = <<>> /\ BackfillInit
IdleTrend == tr_store = <<>> /\ TrendInit
IdleKey ==
    /\ ck_calls = [i \in 1..2 |-> [endpoint |-> "news", cache_key_prefix |-> Absent,
                                   params |-> <<>>]]
    /\ KeyInit

\* the batch of the score calculator when it is not the one under study
IdleScore ==
    /\ sc_batch = SingleWeibo
    /\ sc_in = [metrics |-> [has |-> FALSE, view_count |-> 0],
                published |-> [wall |-> 24, zone |-> "Z"], similar_count |-> 0]
    /\ ScoreInit

Init ==
    /\ SchedInit /\ BatchInit /\ ClientInit /\ backend = "redis" /\ CacheInit
    /\ IdleScore /\ IdleStore /\ IdleBackfill /\ IdleTrend /\ IdleKey

\* the scheduler with its task loops
Next == SchedNext
Spec == Init /\ [][Next]_vars

\* one call of update_all_heat_scores
NextBatch == BatchNext
SpecBatch == Init /\ [][NextBatch]_vars

\* calls of the upstream client's get, one after the other
InitClient ==
    /\ SchedInit /\ BatchInit /\ ClientInit /\ CacheInit /\ IdleScore /\ IdleStore
    /\ IdleBackfill /\ IdleTrend /\ IdleKey
NextClient == ClientNext
SpecClient == InitClient /\ [][NextClient]_vars

\* the same cache calls on a manager with Redis and on one without
NextCache == CacheNext
SpecCache == Init /\ [][NextCache]_vars

\* calculate_heat_score on the items of a batch, and the learner
InitScore ==
    /\ SchedInit /\ BatchInit /\ ClientInit /\ backend = "redis" /\ CacheInit
    /\ ScoreInit /\ IdleStore /\ IdleBackfill /\ IdleTrend /\ IdleKey
NextScore == ScoreNext
SpecScore == InitScore /\ [][NextScore]_vars

\* the store under inserts, and one query on it
InitStore ==
    /\ SchedInit /\ BatchInit /\ ClientInit /\ backend = "redis" /\ CacheInit
    /\ IdleScore /\ StoreInit /\ IdleBackfill /\ IdleTrend /\ IdleKey
NextStore == StoreNext
SpecStore == InitStore /\ [][NextStore]_vars

\* one run of the category backfill on a table
InitBackfill ==
    /\ SchedInit /\ BatchInit /\ ClientInit /\ backend = "redis" /\ CacheInit
    /\ IdleScore /\ IdleStore /\ BackfillInit /\ IdleTrend /\ IdleKey
NextBackfill == BackfillNext
SpecBackfill == InitBackfill /\ [][NextBackfill]_vars

\* the batch updater's rows and the hourly runs of the trending aggregator
InitTrend ==
    /\ SchedInit /\ BatchInit /\ ClientInit /\ backend = "redis" /\ CacheInit
    /\ IdleScore /\ IdleStore /\ IdleBackfill /\ TrendInit /\ IdleKey
NextTrend == TrendNext
SpecTrend == InitTrend /\ [][NextTrend]_vars

\* two GETs that build their cache keys
InitKey ==
    /\ SchedInit /\ BatchInit /\ ClientInit /\ backend = "redis" /\ CacheInit
    /\ IdleScore /\ IdleStore /\ IdleBackfill /\ IdleTrend /\ KeyInit
NextKey == KeyNext
SpecKey == InitKey /\ [][NextKey]_vars

(***************************************************************************)
(* Scheduler claims                                                        *)
(***************************************************************************)
\* the asyncio task the registration of a loop's task id points to
IsCurrent(i) == tasks[loops[i].tid].task = i

\* C1 (as claimed): a task run is one store transaction: no row of a run is
\* durable while the run is still executing, and a run that ended with an
\* error or a timeout leaves none of the rows it wrote in the store.
C1_RunIsOneTransaction ==
    \A i \in LoopIds :
        (loops[i].pc = "executing" \/ loops[i].outcome \in {"error", "timeout"})
            => loops[i].durable = 0

\* C2: a run that raises ends neither its own loop nor another one: the step
\* in which the exception leaves the run puts the loop to sleep and changes
\* no other loop, and while the scheduler is running the sleep of a failed
\* run that is not cancelled can only end in the next run of the same task.
C2_FailedRunKeepsLoops ==
    [][\A i \in LoopIds :
          /\ (loops[i].pc = "executing" /\ loops'[i].outcome = "error")
                => /\ loops'[i].pc = "sleeping"
                   /\ \A j \in LoopIds \ {i} : loops'[j] = loops[j]
          /\ (loops[i].pc = "sleeping" /\ loops[i].outcome = "error"
                /\ is_running /\ ~loops[i].cancel /\ ~loops'[i].cancel
                /\ loops'[i] # loops[i])
                => /\ loops'[i].pc = "executing"
                   /\ loops'[i].tid = loops[i].tid
                   /\ loops'[i].func = loops[i].func]_vars

\* C2 witness: a run of one task has failed, its loop sleeps towards the
\* next run, and the loop of the other task is alive
C2_Witness ==
    \E i, j \in LoopIds :
        /\ i # j /\ is_running
        /\ loops[i].pc = "sleeping" /\ loops[i].outcome = "error" /\ ~loops[i].cancel
        /\ loops[j].pc = "executing" /\ loops[j].tid # loops[i].tid

\* C3: a run that is still executing when max_execution_time elapses is
\* abandoned (its session is closed, nothing of it stays pending) and
\* reported as a timeout, and the loop goes on: it sleeps, and while the
\* scheduler is running the sleep can only end in the next run.
C3_TimeoutContinues ==
    [][\A i \in LoopIds :
          /\ (loops[i].pc = "executing" /\ loops'[i].outcome = "timeout")
                => /\ loops'[i].pc = "sleeping"
                   /\ loops'[i].session = "closed"
                   /\ loops'[i].pending = 0
          /\ (loops[i].pc = "sleeping" /\ loops[i].outcome = "timeout"
                /\ is_running /\ ~loops[i].cancel /\ ~loops'[i].cancel
                /\ loops'[i] # loops[i])
                => /\ loops'[i].pc = "executing"
                   /\ loops'[i].session = "open"
                   /\ loops'[i].outcome = "none"]_vars

\* C3 witness: a run was abandoned on its timeout while a row was being
\* written, and the loop sleeps towards its next run
C3_Witness ==
    \E i \in LoopIds :
        /\ is_running /\ ~loops[i].cancel
        /\ loops[i].pc = "sleeping" /\ loops[i].outcome = "timeout"
        /\ loops[i].durable > 0

\* C4 (as claimed): when stop() returns, every task loop has terminated.
C4_StopAwaitsLoops ==
    [][(is_running /\ ~is_running') =>
          \A i \in LoopIds : loops'[i].pc = "done"]_vars

\* C5: a loop whose registration was replaced never starts a run again and
\* takes no further step of its function: it carries the cancellation, and
\* the only step it still takes is the one that ends it.
C5_ReplacedNeverRuns ==
    [][\A i \in LoopIds :
          (~IsCurrent(i) /\ loops[i].pc # "done")
              => /\ loops[i].cancel
                 /\ (loops'[i] = loops[i] \/ loops'[i].pc = "done")]_vars

\* C5 witness: while the scheduler runs, the loop of a replaced registration
\* was interrupted in the middle of a run and the loop of the new
\* registration of the same task id is executing
C5_Witness ==
    \E i, j \in LoopIds :
        /\ i < j /\ is_running
        /\ loops[i].tid = loops[j].tid
        /\ IsCurrent(j) /\ loops[j].pc = "executing"
        /\ loops[i].pc = "executing" /\ loops[i].cancel

\* C27: a run that ends, and in particular one that is cancelled by stop()
\* or by its timeout while it holds a session, leaves its session closed
\* and nothing pending in it; the step that ends a cancelled or timed-out
\* run commits nothing, and rows become durable only by a step of a run
\* that is executing and not cancelled.
C27_CancelledSessionClosed ==
    [][\A i \in LoopIds :
          /\ (loops[i].pc = "executing" /\ loops'[i].pc # "executing")
                => /\ loops'[i].session = "closed"
                   /\ loops'[i].pending = 0
          /\ (loops[i].pc = "executing" /\ loops'[i].pc # "executing"
                /\ (loops[i].cancel \/ loops'[i].outcome = "timeout"))
                => loops'[i].durable <= loops[i].durable
          /\ loops'[i].pc # "executing" => loops'[i].session = "closed"
          /\ loops'[i].durable > loops[i].durable
                => loops[i].pc = "executing" /\ ~loops[i].cancel]_vars

\* C27 witness: stop() has cancelled a run that holds an open session with
\* an uncommitted row
C27_Witness ==
    \E i \in LoopIds :
        /\ ~is_running /\ loops[i].cancel
        /\ loops[i].pc = "executing" /\ loops[i].session = "open"
        /\ loops[i].pending > 0
FanOutReturned ==
    /\ upd_pc \in {"scoring", "done"}
    /\ src_outcome = "ok"
    /\ chunk_i >= Len(sources)
    /\ Len(sources) > 0

\* C6 (as claimed): a batch run is never aborted by an item: when the
\* updater has returned after a fan-out that delivered items, every item
\* whose scoring does not raise was scored, and the returned map holds
\* exactly the ids of the items whose row was written.
C6_ItemErrorsNeverAbort ==
    (upd_pc = "done" /\ all_news_items # <<>>)
        => /\ score_k = Len(all_news_items)
           /\ upd_result = "map"
           /\ results = {all_news_items[k].id : k \in written}

\* C7: update_all_heat_scores never raises, and when the sources fetch
\* failed, timed out or returned no source, or the fan-out returned no item,
\* it has returned the empty result and no HeatScore row was written.
C7_UpdaterNeverRaises ==
    /\ upd_pc # "raised"
    /\ (upd_pc = "done" /\ (src_outcome \in {"fail", "timeout"}
                            \/ sources = <<>> \/ all_news_items = <<>>))
          => (upd_result = "empty" /\ written = {} /\ results = {})

\* C7 witness: the sources fetch delivered sources, every per-source fetch
\* failed or was empty, and the updater returned the empty result
C7_Witness ==
    /\ upd_pc = "done" /\ src_outcome = "ok" /\ Len(sources) > max_concurrent
    /\ all_news_items = <<>> /\ upd_result = "empty"
    /\ \E p \in 1..Len(outcomes) : outcomes[p] = "fail"

RECURSIVE ItemsOfSucceeded(_, _, _)
\* the items of the sources whose fetch succeeded, in the order of the
\* sources list, each with the id of its source
ItemsOfSucceeded(srcs, outs, p) ==
    IF p > Len(outs) THEN <<>>
    ELSE (IF outs[p] = "ok"
          THEN [k \in 1..Len(Feed(srcs[p])) |->
                   [id |-> Feed(srcs[p])[k].id,
                    has_title |-> Feed(srcs[p])[k].has_title,
                    has_url |-> Feed(srcs[p])[k].has_url,
                    source_id |-> srcs[p]]]
          ELSE <<>>) \o ItemsOfSucceeded(srcs, outs, p + 1)

\* C8: a failed or timed-out per-source fetch does not affect the other
\* sources: the flat list the fan-out returns holds the items of every
\* source whose fetch succeeded, of the same chunk and of later chunks, each
\* stamped with the id of the source it was fetched for.
C8_FanOutIsolatesFailures ==
    FanOutReturned => all_news_items = ItemsOfSucceeded(sources, outcomes, 1)

\* C8 witness: a fetch of the first chunk failed, another one timed out, a
\* third one of that chunk and one of the second chunk succeeded, and the
\* returned list holds the stamped items of both
C8_Witness ==
    /\ FanOutReturned
    /\ \E p, q, r \in 1..max_concurrent :
          /\ p <= Len(outcomes) /\ q <= Len(outcomes) /\ r <= Len(outcomes)
          /\ outcomes[p] = "fail" /\ outcomes[q] = "timeout" /\ outcomes[r] = "ok"
          /\ \E k \in 1..Len(all_news_items) :
                all_news_items[k].source_id = sources[r]
    /\ \E t \in (max_concurrent + 1)..Len(outcomes) :
          /\ outcomes[t] = "ok"
          /\ \E k \in 1..Len(all_news_items) :
                all_news_items[k].source_id = sources[t]
\* C25: at every moment of a fan-out at most 3 fetches are in flight; the
\* fetches of a chunk are started in one step, and in that step no fetch
\* of an earlier chunk is in flight: every earlier source with an id has
\* completed, failed or timed out.
C25_AtMostThreeInFlight ==
    [][LET started == {j \in 1..Len(chunk_tasks') :
                          /\ chunk_tasks'[j].state = "inflight"
                          /\ \A i \in 1..Len(chunk_tasks) :
                                chunk_tasks[i].pos # chunk_tasks'[j].pos}
       IN  /\ Cardinality({j \in 1..Len(chunk_tasks') :
                              chunk_tasks'[j].state = "inflight"}) <= 3
           /\ started # {} =>
                 /\ started = 1..Len(chunk_tasks')
                 /\ \A i \in 1..Len(chunk_tasks) : chunk_tasks[i].state # "inflight"
                 /\ \A j \in started, p \in 1..Len(sources) :
                       (p < chunk_tasks'[j].pos /\ sources[p] # Absent
                            /\ \A i \in started : chunk_tasks'[i].pos # p)
                          => outcomes[p] \in FetchOutcomes]_vars

\* C25 witness: four sources with ids; the three fetches of the first chunk
\* have ended, one of them by its timeout, and the fetch of the fourth
\* source is in flight
C25_Witness ==
    /\ Len(sources) = 4 /\ \A p \in 1..4 : sources[p] # Absent
    /\ upd_pc = "awaiting" /\ chunk_i = 3
    /\ Len(chunk_tasks) = 1 /\ chunk_tasks[1].pos = 4 /\ chunk_tasks[1].state = "inflight"
    /\ \A p \in 1..3 : outcomes[p] \in FetchOutcomes
    /\ \E p \in 1..3 : outcomes[p] = "timeout"

(***************************************************************************)
(* Upstream client claims                                                  *)
(***************************************************************************)
\* what a non-forced cached GET of the call's key would be served at time t
\* from the cache c
Served(c, t) == CacheGet(c, backend, call.key, t)

\* the attempt of this step returns a fetched response
ReturnsFetched == call.pc = "attempt" /\ call'.pc = "returned" /\ ~call'.hit

\* C9 (as claimed): with caching enabled, a GET whose key is present is
\* served from the cache without an upstream request unless force-refresh
\* is on, and every fetched response is stored under the key, so that the
\* next non-forced GET of the key is served that response.
C9_EveryResponseIsCached ==
    [][/\ (call.pc = "attempt" /\ call.use_cache /\ ~call.force_refresh
              /\ Live(cache, backend, call.key, now))
            => (call'.pc = "returned" /\ call'.hit /\ call'.requests = call.requests)
       /\ (ReturnsFetched /\ call.use_cache) => Served(cache', now) = call'.ret]_vars

\* C9 (amended): with caching enabled, a GET whose key holds an unexpired
\* non-empty value is served that value without an upstream request unless
\* force-refresh is on; every other attempt issues one upstream request, and
\* a response it returns is stored under the key for the TTL when it is
\* non-empty (served from the first to the last instant of the TTL, gone
\* after it), while an empty response leaves the cache as it was.
C9_CachedGet ==
    [][(call.pc = "attempt" /\ call'.pc # "attempt") =>
          IF call.use_cache /\ ~call.force_refresh /\ Truthy(Served(cache, now))
          THEN /\ call'.pc = "returned" /\ call'.hit
               /\ call'.ret = Served(cache, now)
               /\ call'.requests = call.requests
               /\ cache' = cache
          ELSE /\ call'.requests = call.requests + 1
               /\ ~call'.hit
               /\ call'.pc = "returned" =>
                     LET ttl == IF call.cache_ttl = 0 THEN 300 ELSE call.cache_ttl
                     IN  IF call.use_cache /\ Truthy(call'.ret)
                         THEN /\ Served(cache', now) = call'.ret
                              /\ Served(cache', now + ttl - 1) = call'.ret
                              /\ Served(cache', now + ttl + 1) = Absent
                         ELSE Served(cache', now) = Served(cache, now)]_vars

\* C9 witness: a response was stored by an earlier GET and, a tick later, a
\* non-forced GET of the key was served from the cache without a request
C9_Witness ==
    /\ call.pc = "returned" /\ call.hit /\ call.requests = 0
    /\ call.use_cache /\ ~call.force_refresh
    /\ now > 0 /\ cache[call.key].present /\ cache[call.key].exp > now
    /\ call.ret \in {"[a]", "[b]"}

\* C10 (as claimed): a GET that keeps failing is retried 3 times, after
\* waits of 1 s, 2 s and 4 s, and then gives up with an error.
C10_ThreeRetriesThenFail ==
    call.pc = "failed" => (call.requests = 4 /\ call.waits = <<1, 2, 4>>)

\* C10 (amended): one get() call issues at most 3 upstream requests; a GET
\* that keeps failing is attempted 3 times in all, with waits of 1 s and 2 s
\* between the attempts (each within the 1 s..10 s limits), and then
\* terminates with an error.
C10_ThreeAttemptsThenFail ==
    /\ call.requests <= 3
    /\ \A k \in 1..Len(call.waits) : call.waits[k] >= 1 /\ call.waits[k] <= 10
    /\ call.pc = "failed" =>
          /\ call.requests = 3 /\ call.attempt = 3
          /\ call.waits = <<1, 2>>
          /\ call.error # "none"

\* C10 witness: a GET failed for good on transport failures or 5xx answers
C10_Witness ==
    /\ call.pc = "failed" /\ call.requests = 3
    /\ call.error \in {"transport", "status5xx"}

\* C11 (as claimed): the error a caller of get() finally observes tells the
\* cause: a transport failure is an HTTPException 503, an upstream 4xx
\* answer an HTTPException with that status code raised by the first attempt
\* (it is not retried), and an undecodable body an HTTPException that is
\* neither of the two nor the one of an upstream 5xx answer.
C11_ErrorTellsCause ==
    call.pc = "failed" =>
        /\ call.raised.type = "HTTPException"
        /\ call.error = "transport" => call.raised.status_code = 503
        /\ call.error = "status4xx" =>
              (call.raised.status_code = UpstreamStatus("status4xx") /\ call.requests = 1)
        /\ call.error = "decode" =>
              call.raised.status_code \notin {503, UpstreamStatus("status4xx"),
                                              UpstreamStatus("status5xx")}

(***************************************************************************)
(* Cache layer claims                                                      *)
(***************************************************************************)
\* some key is at the very instant its time to live ends (the one instant the
\* integer clock cannot order against the expiry)
AtExpiryInstant ==
    \E m \in Managers, k \in CacheKeys :
        db[m][k].present /\ db[m][k].exp # 0 /\ db[m][k].exp = clock

\* C12 (as claimed): a manager whose Redis cannot be reached is connected
\* after connect, on the in-process cache, and every get, set, delete and
\* exists call returns on it what it returns on the manager with Redis.
C12_SameOnBothBackends ==
    [][/\ \A m \in Managers :
             (~mgr[m].is_connected /\ mgr'[m] # mgr[m])
                 => /\ mgr'[m].is_connected
                    /\ mgr'[m].using_memory_cache = ~ServerReachable(m)
       /\ (clock' = clock /\ ~AtExpiryInstant
              /\ observed'.op \in {"get", "set", "delete", "exists"})
             => observed'.A = observed'.B]_vars

\* the key has an expiry time in the in-process cache and it is past
ExpiredInMemory(k) ==
    /\ mgr["B"].is_connected /\ mgr["B"].using_memory_cache
    /\ db["B"][k].present /\ db["B"][k].exp # 0 /\ clock > db["B"][k].exp

\* C13 (as claimed): once the TTL of a key is over, the in-process cache
\* returns absent to get and false to exists for it, and keys() and
\* dbsize() no longer count it.
C13_ExpiryHonoured ==
    [][clock' = clock =>
          \A k \in CacheKeys : ExpiredInMemory(k) =>
              /\ (observed'.op = "get" /\ observed'.key = k) => observed'.B = Absent
              /\ (observed'.op = "exists" /\ observed'.key = k) => observed'.B = FALSE
              /\ observed'.op = "keys" => k \notin observed'.B
              /\ observed'.op = "dbsize" =>
                    observed'.B <= Cardinality({j \in CacheKeys : ~ExpiredInMemory(j)})]_vars

(***************************************************************************)
(* Score calculator claims                                                 *)
(***************************************************************************)
\* C14 (as claimed): every stored HeatScore row has its heat, relevance,
\* recency and popularity scores within 0..100 points.
C14_ScoresInRange ==
    sc_row # NoRow =>
        /\ sc_row.heat_score >= 0 /\ sc_row.heat_score <= 1000000
        /\ sc_row.relevance_score >= 0 /\ sc_row.relevance_score <= 10000
        /\ sc_row.recency_score >= 0 /\ sc_row.recency_score <= 10000
        /\ sc_row.popularity_score >= 0 /\ sc_row.popularity_score <= 10000

\* the offset a published_at string carries
ZoneOffset(zone) == IF zone = "+08:00" THEN 8 ELSE 0

\* the single weibo item with view_count 10000, published now, with no
\* search result, has been scored
SingleWeiboScored ==
    /\ sc_batch = SingleWeibo /\ sc_row # NoRow
    /\ sc_in.metrics = [has |-> TRUE, view_count |-> 10000]
    /\ sc_in.published.zone # "garbled"
    /\ sc_in.published.wall - ZoneOffset(sc_in.published.zone) = NowHour
    /\ sc_in.similar_count = 0

\* C15 (as claimed): the single weibo item gets a cross-source score of 0
\* and a heat of 49.
C15_SingleItemScoresZero ==
    SingleWeiboScored => (sc_row.cross_source_score = 0 /\ sc_row.heat_score = 490000)

\* C15 (amended): the single weibo item is itself one source carrying its
\* title: its cross-source score is 10 and its heat is
\* 0.25*100 + 0.15*100 + 0.20*10 + 0.10*90 = 51.
C15_SingleItemCountsItself ==
    SingleWeiboScored =>
        /\ sc_row.relevance_score = 0 /\ sc_row.recency_score = 10000
        /\ sc_row.popularity_score = 10000 /\ sc_row.source_weight = 9000
        /\ sc_row.cross_source_score = 1000
        /\ sc_row.heat_score = 510000

\* C15 witness: that item was scored, its published_at given with an offset
C15_Witness == SingleWeiboScored /\ sc_in.published.zone = "+08:00"

\* the Jaccard similarity of the token sets of two titles exceeds 0.6
NearDuplicate(t1, t2) ==
    /\ Tokens(t1) \cup Tokens(t2) # {}
    /\ 10 * Cardinality(Tokens(t1) \cap Tokens(t2)) > 6 * Cardinality(Tokens(t1) \cup Tokens(t2))

\* weibo and zhihu carry the same title, a third item is unrelated
TwoSourcesExample == <<ItemPool[1], ItemPool[2], ItemPool[5]>>

\* C16: the cross-source score of a scored item is min(d/10*100, 100) for
\* the number d of distinct source_ids among the items of the batch whose
\* title is a near-duplicate of its title; in the example batch both
\* matching items get 20.
C16_CrossSourceScore ==
    sc_row # NoRow =>
        LET title == sc_batch[sc_row.news_id].title
            d == Cardinality({sc_batch[j].source_id :
                                j \in {i \in 1..Len(sc_batch) :
                                          NearDuplicate(title, sc_batch[i].title)}})
        IN  /\ sc_row.cross_source_score = (IF d * 1000 < 10000 THEN d * 1000 ELSE 10000)
            /\ sc_row.cross_source_score <= 10000
            /\ (sc_batch = TwoSourcesExample /\ sc_row.news_id \in {1, 2})
                  => sc_row.cross_source_score = 2000

\* C16 witness: the zhihu item of the example batch was scored with 20
C16_Witness ==
    /\ sc_batch = TwoSourcesExample /\ sc_row.news_id = 2
    /\ sc_row.cross_source_score = 2000

\* C17 (as claimed): when the source-weight cache holds a record for the
\* source of the item, the row of a scoring call carries the cached weight.
C17_UsesLearnedWeight ==
    [][(sc_row' # sc_row /\ sw_cache[sc_row'.source_id] # 0)
          => sc_row'.source_weight = sw_cache[sc_row'.source_id]]_vars

\* C18 (as claimed): the published_at stored for an item is the naive value
\* of the UTC instant its upstream timestamp denotes, whatever the
\* representation.
C18_StoredInstantIsUtc ==
    (sc_row # NoRow /\ sc_in.published.zone # "garbled")
        => sc_row.published_at = sc_in.published.wall - ZoneOffset(sc_in.published.zone)

\* C24 (as claimed): for every source with at least one item the stored
\* weight is 0.5 base + 0.3 engagement + 0.2 update_frequency clamped to
\* [10, 100], where engagement is the stored average of the normalized
\* engagements, a value in [0, 100], and update_frequency is in [40, 100].
C24_LearnedWeightFormula ==
    \A s \in SourceIds :
        sw_stats[s].item_count > 0 =>
            LET engagement == sw_stats[s].avg_engagement
                update_frequency == sw_stats[s].update_frequency
            IN  /\ engagement >= 0 /\ engagement <= 10000
                /\ update_frequency >= 4000 /\ update_frequency <= 10000
                /\ sw_cache[s] = Max(Min((50 * BaseWeight(s) + 30 * engagement
                                          + 20 * update_frequency) \div 100, 10000), 1000)

(***************************************************************************)
(* Store query claims                                                      *)
(***************************************************************************)
\* C19: get_multi_by_news_ids returns for every listed id that has rows the
\* row get_by_news_id returns for it, which is its row with the greatest
\* calculated_at, and nothing for an id without rows or not listed; also
\* for lists of more than 100 ids and lists with repeated ids.
C19_MultiIsNSingles ==
    (st_query.op = "multi" /\ st_result.done) =>
        \A id \in NewsIds :
            LET rows == {r \in Range(st_store) : r.news_id = id}
                got == st_result.value[id]
            IN  IF rows # {} /\ id \in Range(st_query.news_ids)
                THEN /\ got \in rows
                     /\ \A r \in rows : r.calculated_at <= got.calculated_at
                     /\ got = GetByNewsId(st_store, id)
                ELSE got = NoStoreRow

\* C19 witness: a list of more than 100 ids, the first 100 the same one,
\* whose last id has an older and a newer row; the newer one was returned
C19_Witness ==
    /\ st_query.op = "multi" /\ st_result.done
    /\ Len(st_query.news_ids) > BATCH_SIZE
    /\ st_query.news_ids[Len(st_query.news_ids)] = "n2"
    /\ \E r \in Range(st_store) :
          /\ r.news_id = "n2"
          /\ r.calculated_at < st_result.value["n2"].calculated_at
    /\ st_result.value["n1"] # NoStoreRow

\* the rows within max_age_hours of now with at least min_score
QualifyingRows ==
    {r \in Range(st_store) :
        /\ st_query.max_age_hours # NONE => r.published_at >= StoreNow - st_query.max_age_hours
        /\ st_query.min_score # NONE => r.heat_score >= st_query.min_score}

\* C20 (as claimed): get_top returns qualifying rows only, in order of
\* non-increasing heat, the ones that follow the first skip rows of that
\* order, and at most limit of them; on the example store
\* get_top(limit=3, min_score=50, max_age_hours=24) returns 90, 70, 55.
C20_TopIsFilteredSortedPaged ==
    (st_query.op = "top" /\ st_result.done) =>
        LET res == st_result.value
        IN  /\ \A i \in 1..Len(res) : res[i] \in QualifyingRows
            /\ \A i, j \in 1..Len(res) : i # j => res[i] # res[j]
            /\ \A i \in 1..(Len(res) - 1) : res[i].heat_score >= res[i + 1].heat_score
            /\ \A i \in 1..Len(res) :
                  /\ Cardinality({r \in QualifyingRows : r.heat_score > res[i].heat_score})
                        <= st_query.skip + i - 1
                  /\ Cardinality({r \in QualifyingRows : r.heat_score >= res[i].heat_score})
                        >= st_query.skip + i
            /\ Len(res) <= st_query.limit
            /\ (st_store = ExampleStore /\ st_query.limit = 3 /\ st_query.skip = 0
                   /\ st_query.min_score = 50 /\ st_query.max_age_hours = 24)
                  => [i \in 1..Len(res) |-> res[i].heat_score] = <<90, 70, 55>>

\* C29 (as claimed): after any number of create() calls the list a top-N
\* query returns holds at most one row per news_id, and each returned row
\* is its news_id's current row, the one with the greatest calculated_at.
C29_TopOnePerNewsId ==
    (st_query.op = "top" /\ st_result.done) =>
        LET res == st_result.value
        IN  /\ \A i, j \in 1..Len(res) : i # j => res[i].news_id # res[j].news_id
            /\ \A i \in 1..Len(res) : res[i] = GetByNewsId(st_store, res[i].news_id)

(***************************************************************************)
(* Category backfill claim                                                 *)
(***************************************************************************)
\* C21 (as claimed): after the category backfill has run to completion,
\* every persisted HeatScore row has a non-empty meta_data.category,
\* whatever its meta_data was before the run.
C21_BackfillFillsEveryRow ==
    bf_pc = "done" =>
        \A n \in 1..Len(bf_store) :
            /\ ~bf_store[n].meta_data.null
            /\ bf_store[n].meta_data.has_category
            /\ bf_store[n].meta_data.category # ""

(***************************************************************************)
(* Trending aggregator claims                                              *)
(***************************************************************************)
\* the rows the aggregator's query selects: of the last 12 hours, heat >= 20
AggregatedRows ==
    {r \in Range(tr_store) :
        r.published_at >= tr_now - MaxAgeHours /\ r.heat_score >= MinScore}

\* where a word occurs in the selected rows: the row and the position in
\* its Keyword list
OccurrencesOf(word) ==
    UNION {{<<r.id, k>> : k \in {j \in 1..Len(r.keywords) : r.keywords[j].word = word}} :
              r \in AggregatedRows}

SourcesOf(word) ==
    {r.source_id : r \in {x \in AggregatedRows :
                             \E k \in 1..Len(x.keywords) : x.keywords[k].word = word}}

C23_KeywordListPersisted ==
    \A n \in 1..Len(tr_store) :
        tr_store[n].id > Len(TypedRows)
            => tr_store[n].keywords = ExtractKeywords(tr_store[n].title)

\* C30 (as claimed): after a run of the aggregator the keywords key serves
\* the list that run computed, the empty list when no word passed the
\* thresholds.
C30_CacheHoldsLastRun ==
    [][tr_run'.at # tr_run.at =>
          GetHotKeywords(tr_cache', tr_now', 100, 0)
              = SubSeq(tr_run'.value, 1, Min(Len(tr_run'.value), 100))]_vars

(***************************************************************************)
(* Cache key claim                                                         *)
(***************************************************************************)
\* C26 (as claimed): two GETs with the same prefix and the same parameter
\* map use the same cache key, in whatever order the parameters were
\* supplied.
C26_KeyIgnoresParamOrder ==
    (/\ ck_keys[1] # Absent /\ ck_keys[2] # Absent
     /\ ck_calls[1].endpoint = ck_calls[2].endpoint
     /\ ck_calls[1].cache_key_prefix = ck_calls[2].cache_key_prefix
     /\ Range(ck_calls[1].params) = Range(ck_calls[2].params))
        => ck_keys[1] = ck_keys[2]
====
